---- MODULE Spec2Model ----
(***************************************************************************)
(* Device42 -> Nautobot one-way reconciliation job.                        *)
(*                                                                         *)
(* Two packages of the repository are modelled side by side, selected by  *)
(* the variable pkg:                                                       *)
(*   "ssot" = src/nautobot_ssot_device42   "sync" = src/nautobot_device42_sync *)
(* The diff/sync engine the adapters run on (the diffsync library) is not  *)
(* part of the repository; it is modelled from spec.md sections 4.3-4.5.   *)
(***************************************************************************)
EXTENDS Integers, Sequences, FiniteSets, TLC

VARIABLES
    run,                \* the number of the sync run in the life of the worker process
    api,                \* the frame of Device42API.api_call: return_data, counter, result
    PLUGIN_CFG,         \* the tag-prefix settings of the plugin: facility_prepend, role_prepend
    pkg,                \* which package's adapter, hooks and job run
    dry_run,            \* job kwarg
    debug,              \* job kwarg
    delete_on_sync,     \* PLUGIN_CFG["delete_on_sync"]
    d42_records,        \* what the Device42 client returns, per type
    db,                 \* the Nautobot backing store, one set of rows per table
    d42_store,          \* Device42Adapter's entity store
    nb_store,           \* NautobotAdapter's entity store
    diff,               \* the diff forest, flattened in walk order
    saved_diff,         \* self.sync.diff after self.sync.save()
    pc,                 \* position of sync_data
    idx,                \* next node of the walk
    objects_to_delete,  \* NautobotAdapter._objects_to_delete
    sweep_pos,          \* <<grouping index, object index>> in sync_complete
    hook_log,           \* hooks invoked so far: [node, action, result]
    sweep_log,          \* deletions attempted by sync_complete: [grouping, obj, result]
    db_before,          \* the backing store when the job started
    rediff              \* the diff of a fresh Nautobot load against d42_store

vars == <<run, api, PLUGIN_CFG, pkg, dry_run, debug, delete_on_sync, d42_records, db, d42_store, nb_store,
          diff, saved_diff, pc, idx, objects_to_delete, sweep_pos, hook_log,
          sweep_log, db_before, rediff>>

(***************************************************************************)
(* Small helpers                                                           *)
(***************************************************************************)
None == "None"

\* no call of api_call under way
NoCall == [return_data |-> None, counter |-> 0, pagination |-> FALSE, result |-> None,
           printed |-> {}]

MaxDevices == 2

Range(s) == {s[k] : k \in 1..Len(s)}

IndexOf(s, x) == IF x \in Range(s) THEN CHOOSE k \in 1..Len(s) : s[k] = x ELSE 0

\* django.utils.text.slugify on the names of the model: lower-cases
slugify(s) == IF s = "B1" THEN "b1" ELSE s

\* Python's string order on the unique ids used in the model (ASCII order)
StrRank(s) ==
    CASE s = "10.0.0.0" -> 1
      [] s = "B1" -> 2
      [] s = "d1" -> 3
      [] s = "d2" -> 4
      [] s = "h1" -> 5
      [] s = "k1" -> 6
      [] s = "m1" -> 7
      [] s = "p1" -> 8
      [] s = "r1" -> 9
      [] s = "v1" -> 10
      [] OTHER -> 11

\* a model's unique id is "__".join(identifiers); its place in Python's string
\* order is decided by the first identifiers
UniqueRank(id) == StrRank(id[1]) * 100 + (IF Len(id) > 1 THEN StrRank(id[2]) ELSE 0)

\* sorted(names): the elements of S (records with an id) in increasing order of unique id
RECURSIVE SortedIds(_)
SortedIds(S) ==
    IF S = {} THEN <<>>
    ELSE LET m == CHOOSE x \in S : \A y \in S : UniqueRank(x.id) <= UniqueRank(y.id)
         IN <<m>> \o SortedIds(S \ {m})

RECURSIVE Flatten(_)
Flatten(ss) == IF ss = <<>> THEN <<>> ELSE Head(ss) \o Flatten(Tail(ss))

(***************************************************************************)
(* Adapter declarations                                                    *)
(***************************************************************************)
\* a mutation of top_level: subnets ahead of the VRFs
top_level_subnet_first ==
    [ssot |-> <<"building", "vendor", "hardware", "subnet", "vrf", "vlan", "cluster",
                "device", "ipaddr", "provider", "circuit", "conn">>,
     sync |-> <<"building", "vendor", "hardware", "subnet", "vrf", "vlan", "cluster",
                "device", "conn", "ipaddr", "provider", "circuit">>]

\* a mutation of top_level: addresses ahead of the devices
top_level_ipaddr_first ==
    [ssot |-> <<"building", "vendor", "hardware", "vrf", "subnet", "vlan", "cluster",
                "ipaddr", "device", "provider", "circuit", "conn">>,
     sync |-> <<"building", "vendor", "hardware", "vrf", "subnet", "vlan", "cluster",
                "ipaddr", "conn", "device", "provider", "circuit">>]

\* top_level of both adapters of a package
top_level ==
    [ssot |-> <<"building", "vendor", "hardware", "vrf", "subnet", "vlan", "cluster",
                "device", "ipaddr", "provider", "circuit", "conn">>,
     sync |-> <<"building", "vendor", "hardware", "vrf", "subnet", "vlan", "cluster",
                "device", "conn", "ipaddr", "provider", "circuit">>]

\* _children of the models: parent type -> child type
ModelChildren ==
    [building |-> <<"room">>, room |-> <<"rack">>, rack |-> <<>>, vendor |-> <<>>,
     hardware |-> <<>>, vrf |-> <<>>, subnet |-> <<>>, vlan |-> <<>>, cluster |-> <<>>,
     device |-> <<"port">>, port |-> <<>>, ipaddr |-> <<>>, provider |-> <<>>,
     circuit |-> <<>>, conn |-> <<>>]

\* keys of NautobotAdapter._objects_to_delete
DeleteListKeys ==
    [ssot |-> {"device", "site", "rack", "manufacturer", "device_type", "ipaddr", "vrf",
               "cluster", "port", "subnet", "vlan", "provider", "circuit"},
     sync |-> {"device", "site", "rack_group", "rack", "manufacturer", "device_type", "vrf",
               "cluster", "port", "subnet", "ipaddr", "vlan", "cable"}]

\* the name under which the adapter class holds the deferred-deletion dict
AdapterListAttr == "_objects_to_delete"

\* the groupings sync_complete drains, in its order
SweepOrder ==
    [ssot |-> <<"ipaddr", "subnet", "vrf", "vlan", "circuit", "provider", "cluster", "port",
                "device", "device_type", "manufacturer", "rack", "site">>,
     sync |-> <<"port", "cluster", "device", "rack", "rack_group", "vrf", "subnet", "ipaddr",
                "vlan", "site", "manufacturer">>]

(***************************************************************************)
(* The entity store of an adapter (DiffSync.add / get / add_child)         *)
(***************************************************************************)
EmptyStore == [ents |-> {}, kids |-> {}, err |-> None]

Entity(t, id, attrs) == [type |-> t, id |-> id, attrs |-> attrs]

Has(st, t, id) == \E e \in st.ents : e.type = t /\ e.id = id

Get(st, t, id) == CHOOSE e \in st.ents : e.type = t /\ e.id = id

\* self.add(obj): ObjectAlreadyExists when (type, unique id) is already stored
add(st, e) ==
    IF Has(st, e.type, e.id) THEN [st EXCEPT !.err = "ObjectAlreadyExists"]
    ELSE [st EXCEPT !.ents = @ \cup {e}]

\* parent = self.get(type, id); parent.add_child(child): ObjectNotFound when absent
add_child(st, pt, pid, e) ==
    IF ~Has(st, pt, pid) THEN [st EXCEPT !.err = "ObjectNotFound"]
    ELSE [st EXCEPT !.kids = @ \cup {<<pt, pid, e.type, e.id>>}]

\* try: ... except <excs>: log and go on with the next record
Caught(st, excs) == IF st.err \in excs THEN [st EXCEPT !.err = None] ELSE st

\* a value Python treats as false (record.get(key) on an empty or missing value)
Falsy(v) == v \in {"", None, "False", "0"}

\* Python's string order on the tag names
TagRank(t) == CASE t = "ta" -> 1 [] t = "tb" -> 2 [] OTHER -> 3

\* list.sort() on a list of tag names
RECURSIVE sort(_)
sort(s) ==
    IF s = <<>> THEN <<>>
    ELSE LET k == CHOOSE i \in 1..Len(s) : \A j \in 1..Len(s) : TagRank(s[i]) <= TagRank(s[j])
         IN <<s[k]>> \o sort([i \in 1..(Len(s) - 1) |-> IF i < k THEN s[i] ELSE s[i + 1]])

\* _tags of load_buildings: sorted when longer than one (ssot), sorted always (sync)
d42_tags(p, tags) == IF p = "sync" \/ Len(tags) > 1 THEN sort(tags) ELSE tags

\* get_tag_strings: the sorted names (ssot); the value of list.sort(), None (sync)
get_tag_strings(p, names) ==
    IF p = "ssot" THEN (IF Len(names) > 1 THEN sort(names) ELSE names) ELSE None

\* get_tags: the Tag objects of the names that are not empty
get_tags(tag_list) == SelectSeq(tag_list, LAMBDA x : x # "")

\* attrs (or a row) with the tag list, when the record carries one
WithTags(attrs, r, tags) ==
    IF "tags" \notin DOMAIN r THEN attrs
    ELSE [k \in DOMAIN attrs \cup {"tags"} |-> IF k = "tags" THEN tags ELSE attrs[k]]

\* every tag-prefix setting present
Configured == [facility_prepend |-> "site-", role_prepend |-> "role-"]

\* re.search(prefix, tag) on the tags of the model: the tag starts with the prefix
re_search(prefix, tag) ==
    \/ prefix = "site-" /\ tag = "site-f1"
    \/ prefix = "role-" /\ tag = "role-r1"

\* re.sub(prefix, "", tag) on a tag that starts with the prefix
re_sub(prefix, tag) == IF tag = "site-f1" THEN "f1" ELSE "r1"

\* attrs.get("tags") and len(attrs["tags"]) > 0
HasTags(n) == "tags" \in DOMAIN n.attrs /\ Len(n.attrs.tags) > 0

\* get_facility / Building._get_facility: the first tag with the prefix, stripped; None
\* when no tag has it; log_failure and MissingConfigSetting when the setting is absent
get_facility(cfg, tags) ==
    IF Falsy(cfg.facility_prepend)
    THEN [exc |-> "MissingConfigSetting", log |-> "log_failure", value |-> None]
    ELSE LET hits == {k \in 1..Len(tags) : re_search(cfg.facility_prepend, tags[k])}
         IN [exc |-> None, log |-> None,
             value |-> IF hits = {} THEN None
                       ELSE re_sub(cfg.facility_prepend,
                                   tags[CHOOSE k \in hits : \A l \in hits : k <= l])]

\* find_device_role_from_tags: print and MissingConfigSetting when the setting is
\* absent; DEFAULTS["device_role"] when no tag has the prefix
find_device_role_from_tags(cfg, tags) ==
    IF Falsy(cfg.role_prepend)
    THEN [exc |-> "MissingConfigSetting", log |-> "print", value |-> None]
    ELSE LET hits == {k \in 1..Len(tags) : re_search(cfg.role_prepend, tags[k])}
         IN [exc |-> None, log |-> None,
             value |-> IF hits = {} THEN "DEFAULTS.device_role"
                       ELSE re_sub(cfg.role_prepend,
                                   tags[CHOOSE k \in hits : \A l \in hits : k <= l])]

\* the attribute of the adapter through which the delete hooks reach the dict
HookListAttr(p) == IF p = "ssot" THEN "objects_to_delete" ELSE "_objects_to_delete"

(***************************************************************************)
(* Device42Adapter: records of the Device42 API -> entities                *)
(***************************************************************************)
\* record["tags"] if record.get("tags") else []
RecordTags(r) == IF "tags" \in DOMAIN r THEN r.tags ELSE <<>>

d42_building(p, r) ==
    Entity("building", <<r.name>>,
           WithTags([address |-> IF Falsy(r.address) THEN "" ELSE r.address], r,
                    d42_tags(p, RecordTags(r))))

\* rooms=record["rooms"]: the building's child list starts with what the record carries;
\* the ssot loader looks the facility up for every record, before it adds the building
load_buildings(p, cfg, st, recs) ==
    LET step(s, r) ==
            LET a == add(s, d42_building(p, r))
            IN IF p = "ssot" /\ get_facility(cfg, d42_tags(p, RecordTags(r))).exc # None
               THEN [s EXCEPT !.err = "MissingConfigSetting"]
               ELSE IF a.err # None THEN Caught(a, {"ObjectAlreadyExists"})
               ELSE [a EXCEPT !.kids = @ \cup {<<"building", <<r.name>>, "room", x>> :
                                                  x \in Range(r.rooms)}]
        f[k \in 0..Len(recs)] ==
            IF k = 0 THEN st
            ELSE IF f[k-1].err # None THEN f[k-1] ELSE step(f[k-1], recs[k])
    IN f[Len(recs)]

d42_room(r) == Entity("room", <<r.name, r.building>>, [notes |-> ""])

load_rooms(st, recs) ==
    LET step(s, r) ==
            IF Falsy(r.building) THEN s
            ELSE LET a == add(s, d42_room(r))
                 IN IF a.err # None THEN Caught(a, {"ObjectAlreadyExists"})
                    ELSE add_child(a, "building", <<r.building>>, d42_room(r))
        f[k \in 0..Len(recs)] ==
            IF k = 0 THEN st
            ELSE IF f[k-1].err # None THEN f[k-1] ELSE step(f[k-1], recs[k])
    IN f[Len(recs)]

d42_rack(r) == Entity("rack", <<r.name, r.building, r.room>>, [height |-> "1"])

load_racks(st, recs) ==
    LET step(s, r) ==
            IF Falsy(r.building) \/ Falsy(r.room) THEN s
            ELSE LET a == add(s, d42_rack(r))
                 IN IF a.err # None THEN Caught(a, {"ObjectAlreadyExists"})
                    ELSE add_child(a, "room", <<r.room, r.building>>, d42_rack(r))
        f[k \in 0..Len(recs)] ==
            IF k = 0 THEN st
            ELSE IF f[k-1].err # None THEN f[k-1] ELSE step(f[k-1], recs[k])
    IN f[Len(recs)]

d42_vendor(r) == Entity("vendor", <<r.name>>, [custom_fields |-> ""])

\* self.add(vendor) is not wrapped: a second record of the same name ends the load
load_vendors(st, recs) ==
    LET f[k \in 0..Len(recs)] ==
            IF k = 0 THEN st
            ELSE IF f[k-1].err # None THEN f[k-1] ELSE add(f[k-1], d42_vendor(recs[k]))
    IN f[Len(recs)]

d42_hardware(r) == Entity("hardware", <<r.name>>, [manufacturer |-> r.manufacturer])

load_hardware_models(st, recs) ==
    LET step(s, r) ==
            IF Falsy(r.manufacturer) THEN s
            ELSE Caught(add(s, d42_hardware(r)), {"ObjectAlreadyExists"})
        f[k \in 0..Len(recs)] ==
            IF k = 0 THEN st
            ELSE IF f[k-1].err # None THEN f[k-1] ELSE step(f[k-1], recs[k])
    IN f[Len(recs)]

d42_vrf(r) == Entity("vrf", <<r.name>>, [description |-> r.description])

load_vrfgroups(st, recs) ==
    LET f[k \in 0..Len(recs)] ==
            IF k = 0 THEN st
            ELSE IF f[k-1].err # None THEN f[k-1]
            ELSE Caught(add(f[k-1], d42_vrf(recs[k])), {"ObjectAlreadyExists"})
    IN f[Len(recs)]

d42_subnet(r) == Entity("subnet", <<r.network, r.mask_bits, r.vrf>>, [description |-> r.name])

load_subnets(st, recs) ==
    LET step(s, r) ==
            IF r.mask_bits = "0" THEN s
            ELSE Caught(add(s, d42_subnet(r)), {"ObjectAlreadyExists"})
        f[k \in 0..Len(recs)] ==
            IF k = 0 THEN st
            ELSE IF f[k-1].err # None THEN f[k-1] ELSE step(f[k-1], recs[k])
    IN f[Len(recs)]

\* get_building_for_device (ssot) / record["building"] or "" (sync)
get_building_for_device(p, r) == IF p = "ssot" THEN slugify(r.building) ELSE r.building

d42_device(p, r) ==
    Entity("device", <<r.name>>,
           WithTags([building |-> get_building_for_device(p, r),
            room |-> r.room,
            rack |-> r.rack,
            rack_position |-> IF Falsy(r.start_at) THEN None ELSE r.start_at,
            rack_orientation |-> IF r.orientation = "1" THEN "front" ELSE "rear",
            hardware |-> r.hw_model,
            in_service |-> r.in_service,
            serial_no |-> r.serial_no], r, d42_tags(p, RecordTags(r))))

load_devices_and_clusters(p, st, recs) ==
    LET step(s, r) ==
            IF p = "ssot" /\ (Falsy(r.hw_model) \/ get_building_for_device(p, r) = "") THEN s
            ELSE Caught(add(s, d42_device(p, r)), {"ObjectAlreadyExists"})
        f[k \in 0..Len(recs)] ==
            IF k = 0 THEN st
            ELSE IF f[k-1].err # None THEN f[k-1] ELSE step(f[k-1], recs[k])
    IN f[Len(recs)]

\* is_truthy(_port["up_admin"])
is_truthy(v) == IF Falsy(v) THEN "False" ELSE "True"

d42_port(r) == Entity("port", <<r.device_name, r.port_name>>, [enabled |-> is_truthy(r.up_admin)])

\* a port whose device was not loaded stays in the store without a parent
load_ports(st, recs) ==
    LET step(s, r) ==
            IF Falsy(r.port_name) \/ Falsy(r.device_name) THEN s
            ELSE LET a == add(s, d42_port(r))
                 IN IF a.err # None THEN Caught(a, {"ObjectAlreadyExists"})
                    ELSE Caught(add_child(a, "device", <<r.device_name>>, d42_port(r)),
                                {"ObjectNotFound"})
        f[k \in 0..Len(recs)] ==
            IF k = 0 THEN st
            ELSE IF f[k-1].err # None THEN f[k-1] ELSE step(f[k-1], recs[k])
    IN f[Len(recs)]

\* f"{ip_address}/{netmask}"
ip_with_mask(ip, mask) == ip \o "/" \o mask

\* the ssot model identifies an address by (address, vrf), the sync model by address alone
d42_ipaddr(p, r) ==
    IF p = "ssot"
    THEN Entity("ipaddr", <<ip_with_mask(r.ip_address, r.netmask), r.vrf>>, [label |-> r.label])
    ELSE Entity("ipaddr", <<ip_with_mask(r.ip_address, r.netmask)>>,
                [label |-> r.label, vrf |-> r.vrf])

load_ip_addresses(p, st, recs) ==
    LET f[k \in 0..Len(recs)] ==
            IF k = 0 THEN st
            ELSE IF f[k-1].err # None THEN f[k-1]
            ELSE Caught(add(f[k-1], d42_ipaddr(p, recs[k])), {"ObjectAlreadyExists"})
    IN f[Len(recs)]

\* Device42Adapter.load
Device42Load(p, recs) ==
    LET s1 == load_buildings(p, PLUGIN_CFG, EmptyStore, recs.buildings)
        s2 == load_rooms(s1, recs.rooms)
        s3 == load_racks(s2, recs.racks)
        s4 == load_vendors(s3, recs.vendors)
        s5 == load_hardware_models(s4, recs.hardware)
        s6 == load_vrfgroups(s5, recs.vrfs)
        s7 == load_subnets(s6, recs.subnets)
        s8 == load_devices_and_clusters(p, s7, recs.devices)
        s9 == load_ports(s8, recs.ports)
    IN load_ip_addresses(p, s9, recs.ips)

(***************************************************************************)
(* NautobotAdapter: rows of the backing store -> entities                  *)
(***************************************************************************)
load_sites(p, D) ==
    {Entity("building", <<s.name>>,
            WithTags([address |-> s.physical_address], s, get_tag_strings(p, RecordTags(s))))
     : s \in D.site}

load_rackgroups(D) == {Entity("room", <<g.name, g.site>>, [notes |-> ""]) : g \in D.rackgroup}

nb_load_racks(D) == {Entity("rack", <<k.name, k.site, k.group>>, [height |-> "1"]) : k \in D.rack}

load_manufacturers(D) == {Entity("vendor", <<m.name>>, [custom_fields |-> ""]) : m \in D.manufacturer}

load_device_types(D) ==
    {Entity("hardware", <<t.model>>, [manufacturer |-> t.manufacturer]) : t \in D.devicetype}

load_vrfs(D) == {Entity("vrf", <<v.name>>, [description |-> v.description]) : v \in D.vrf}

load_prefixes(D) ==
    {Entity("subnet", <<x.network, x.mask, x.vrf>>, [description |-> x.description]) : x \in D.prefix}

SiteOf(D, name) == CHOOSE s \in D.site : s.name = name

load_devices(p, D) ==
    {Entity("device", <<d.name>>,
            WithTags([building |-> IF p = "ssot" THEN SiteOf(D, d.site).slug ELSE d.site,
             room |-> IF d.rack # "" THEN d.group ELSE "",
             rack |-> d.rack,
             rack_position |-> d.position,
             rack_orientation |-> IF d.face # "" THEN d.face ELSE "rear",
             hardware |-> d.device_type,
             in_service |-> IF d.status = "Active" THEN "True" ELSE "False",
             serial_no |-> d.serial], d, get_tag_strings(p, RecordTags(d)))) : d \in D.device}

load_interfaces(D) ==
    {Entity("port", <<i.device, i.name>>, [enabled |-> i.enabled]) : i \in D.interface}

nb_load_ip_addresses(p, D) ==
    {IF p = "ssot"
     THEN Entity("ipaddr", <<a.address, a.vrf>>, [label |-> a.description])
     ELSE Entity("ipaddr", <<a.address>>, [label |-> a.description, vrf |-> a.vrf])
     : a \in D.ipaddress}

\* NautobotAdapter.load: every row becomes an entity; room, rack and port are
\* attached to their parent
NautobotLoad(p, D) ==
    [ents |-> load_sites(p, D) \cup load_rackgroups(D) \cup nb_load_racks(D)
                \cup load_manufacturers(D) \cup load_device_types(D) \cup load_vrfs(D)
                \cup load_prefixes(D) \cup load_devices(p, D) \cup load_interfaces(D)
                \cup nb_load_ip_addresses(p, D),
     kids |-> {<<"building", <<g.site>>, "room", <<g.name, g.site>>>> : g \in D.rackgroup}
                \cup {<<"room", <<k.group, k.site>>, "rack", <<k.name, k.site, k.group>>>> : k \in D.rack}
                \cup {<<"device", <<i.device>>, "port", <<i.device, i.name>>>> : i \in D.interface},
     err |-> None]

(***************************************************************************)
(* The Nautobot backing store                                              *)
(***************************************************************************)
Tables == {"site", "rackgroup", "rack", "manufacturer", "devicetype", "vrf", "prefix",
           "device", "interface", "ipaddress"}

\* the natural key of a row
RowKey(tbl, r) ==
    CASE tbl = "site" -> <<r.name>>
      [] tbl = "rackgroup" -> <<r.name, r.site>>
      [] tbl = "rack" -> <<r.name, r.site, r.group>>
      [] tbl = "manufacturer" -> <<r.name>>
      [] tbl = "devicetype" -> <<r.model>>
      [] tbl = "vrf" -> <<r.name>>
      [] tbl = "prefix" -> <<r.network, r.mask, r.vrf>>
      [] tbl = "device" -> <<r.name>>
      [] tbl = "interface" -> <<r.device, r.name>>
      [] tbl = "ipaddress" -> <<r.address, r.vrf>>

RowsByKey(D, tbl, key) == {r \in D[tbl] : RowKey(tbl, r) = key}

\* the rows that keep a row from being deleted: "it can't be deleted before they are"
Referenced(D, tbl, r) ==
    CASE tbl = "site" ->
            (\E g \in D.rackgroup : g.site = r.name) \/ (\E k \in D.rack : k.site = r.name)
            \/ (\E d \in D.device : d.site = r.name)
      [] tbl = "rackgroup" -> \E k \in D.rack : k.group = r.name /\ k.site = r.site
      [] tbl = "rack" -> \E d \in D.device : d.rack = r.name /\ d.group = r.group
      [] tbl = "manufacturer" -> \E t \in D.devicetype : t.manufacturer = r.name
      [] tbl = "devicetype" -> \E d \in D.device : d.device_type = r.model
      [] tbl = "device" -> \E i \in D.interface : i.device = r.name
      [] tbl = "vrf" ->
            (\E x \in D.prefix : x.vrf = r.name) \/ (\E a \in D.ipaddress : a.vrf = r.name)
      [] OTHER -> FALSE

\* nautobot_object.delete(): the new store, or ProtectedError
ObjDelete(D, tbl, key) ==
    LET rows == RowsByKey(D, tbl, key)
    IN IF \E r \in rows : Referenced(D, tbl, r)
       THEN [err |-> "ProtectedError", db |-> D]
       ELSE [err |-> None, db |-> [D EXCEPT ![tbl] = @ \ rows]]

\* validated_save() of a device: a rack unit takes one device per face
RackUnitTaken(D, d) ==
    /\ d.rack # "" /\ d.position # None
    /\ \E o \in D.device : /\ o.name # d.name /\ o.rack = d.rack /\ o.group = d.group
                           /\ o.position = d.position /\ o.face = d.face

\* Model.objects.get(id=uuid): no row has the id None
GetById(D, tbl, id) == IF id = None THEN {} ELSE RowsByKey(D, tbl, id)

\* the uuid of an entity: NautobotAdapter's loaders never pass it, so the
\* Optional[UUID] field keeps its default
uuid(e) == None

\* the outcome of a hook
HookResult(kind, D, otd, exc) == [kind |-> kind, db |-> D, otd |-> otd, exc |-> exc]

\* getattr(self.diffsync, attr)[key].append(obj)
Enqueue(D, otd, attr, key, tbl, rowkey) ==
    IF attr # AdapterListAttr THEN HookResult("raise", D, otd, "AttributeError")
    ELSE IF key \notin DOMAIN otd THEN HookResult("raise", D, otd, "KeyError")
    ELSE HookResult("ok", D, [otd EXCEPT ![key] = Append(@, [tbl |-> tbl, key |-> rowkey])], None)

\* attrs.get(name): the value the diff handed to the hook, None when the attribute is not in it
AttrGet(node, name) == IF name \in node.changed THEN node.attrs[name] ELSE None

(***************************************************************************)
(* Hooks of the models.  c is the call's context: c.pkg, c.debug,          *)
(* c.delete_on_sync, c.db (the backing store), c.otd (the deferred-        *)
(* deletion dict); n is the diff node (n.id, n.attrs, n.changed).          *)
(***************************************************************************)
Ok(c, D) == HookResult("ok", D, c.otd, None)

Raise(c, exc) == HookResult("raise", c.db, c.otd, exc)

\* if attrs.get("tags"): the facility is looked up, and set when a tag names one
Building_create(c, n) ==
    LET new_site == WithTags([name |-> n.id[1], slug |-> slugify(n.id[1]),
                              physical_address |-> IF Falsy(AttrGet(n, "address")) THEN ""
                                                   ELSE n.attrs.address],
                             n.attrs, get_tags(n.attrs.tags))
        fac == get_facility(c.cfg, n.attrs.tags)
    IN IF ~HasTags(n) THEN Ok(c, [c.db EXCEPT !.site = @ \cup {new_site}])
       ELSE IF fac.exc # None THEN Raise(c, fac.exc)
       ELSE IF fac.value = None THEN Ok(c, [c.db EXCEPT !.site = @ \cup {new_site}])
       ELSE Ok(c, [c.db EXCEPT !.site = @ \cup
                     {[k \in DOMAIN new_site \cup {"facility"} |->
                         IF k = "facility" THEN fac.value ELSE new_site[k]]}])

\* a mutation of Building_update: the address handed over is appended to the stored one
Building_update_appending(c, n) ==
    IF c.pkg = "sync" THEN Ok(c, c.db)
    ELSE LET rows == {s \in c.db.site : s.slug = slugify(n.id[1])}
         IN IF rows = {} THEN Raise(c, "DoesNotExist")
            ELSE IF Falsy(AttrGet(n, "address")) THEN Ok(c, c.db)
            ELSE Ok(c, [c.db EXCEPT !.site = (@ \ rows) \cup
                    {[r EXCEPT !.physical_address = @ \o n.attrs.address] : r \in rows}])

Building_update(c, n) ==
    IF c.pkg = "sync" THEN Ok(c, c.db)
    ELSE LET rows == {s \in c.db.site : s.slug = slugify(n.id[1])}
         IN IF rows = {} THEN Raise(c, "DoesNotExist")
            ELSE IF Falsy(AttrGet(n, "address")) THEN Ok(c, c.db)
            ELSE Ok(c, [c.db EXCEPT !.site = (@ \ rows) \cup
                    {[r EXCEPT !.physical_address = n.attrs.address] : r \in rows}])

Building_delete(c, n) ==
    IF c.pkg = "ssot"
    THEN IF ~c.delete_on_sync THEN Ok(c, c.db)
         ELSE IF GetById(c.db, "site", uuid(n)) = {} THEN Raise(c, "DoesNotExist")
         ELSE Enqueue(c.db, c.otd, HookListAttr(c.pkg), "site", "site", n.id)
    ELSE IF RowsByKey(c.db, "site", n.id) = {} THEN Raise(c, "DoesNotExist")
         ELSE Enqueue(c.db, c.otd, HookListAttr(c.pkg), "site", "site", n.id)

Room_create(c, n) ==
    IF RowsByKey(c.db, "site", <<n.id[2]>>) = {} THEN Raise(c, "DoesNotExist")
    ELSE Ok(c, [c.db EXCEPT !.rackgroup = @ \cup {[name |-> n.id[1], site |-> n.id[2]]}])

Room_update(c, n) ==
    IF c.pkg = "sync" THEN Ok(c, c.db)
    ELSE IF RowsByKey(c.db, "rackgroup", n.id) = {} THEN Raise(c, "DoesNotExist")
    ELSE Ok(c, c.db)

\* ssot: RackGroup.objects.get(self.uuid) passes the uuid positionally;
\* sync: get(name=, building=) names a field RackGroup does not have
Room_delete(c, n) ==
    IF c.pkg = "ssot"
    THEN IF ~c.delete_on_sync THEN Ok(c, c.db) ELSE Raise(c, "TypeError")
    ELSE Raise(c, "FieldError")

Rack_create(c, n) ==
    IF RowsByKey(c.db, "site", <<n.id[2]>>) = {} THEN Raise(c, "DoesNotExist")
    ELSE IF RowsByKey(c.db, "rackgroup", <<n.id[3], n.id[2]>>) = {} THEN Raise(c, "DoesNotExist")
    ELSE Ok(c, [c.db EXCEPT !.rack = @ \cup
                  {[name |-> n.id[1], site |-> n.id[2], group |-> n.id[3]]}])

Rack_update(c, n) ==
    IF c.pkg = "sync" THEN Ok(c, c.db)
    ELSE IF RowsByKey(c.db, "rack", n.id) = {} THEN Raise(c, "DoesNotExist")
    ELSE Ok(c, c.db)

\* sync: get(name=, building=, room=) names fields Rack does not have
Rack_delete(c, n) ==
    IF c.pkg = "ssot"
    THEN IF ~c.delete_on_sync THEN Ok(c, c.db)
         ELSE IF GetById(c.db, "rack", uuid(n)) = {} THEN Raise(c, "DoesNotExist")
         ELSE Enqueue(c.db, c.otd, HookListAttr(c.pkg), "rack", "rack", n.id)
    ELSE Raise(c, "FieldError")

Vendor_create(c, n) ==
    IF RowsByKey(c.db, "manufacturer", n.id) # {} THEN Ok(c, c.db)
    ELSE Ok(c, [c.db EXCEPT !.manufacturer = @ \cup {[name |-> n.id[1]]}])

Vendor_update(c, n) ==
    IF c.pkg = "sync" THEN Ok(c, c.db)
    ELSE IF GetById(c.db, "manufacturer", uuid(n)) = {} THEN Raise(c, "DoesNotExist")
    ELSE Ok(c, c.db)

Vendor_delete(c, n) ==
    IF c.pkg = "ssot"
    THEN IF ~c.delete_on_sync THEN Ok(c, c.db)
         ELSE IF GetById(c.db, "manufacturer", uuid(n)) = {} THEN Raise(c, "DoesNotExist")
         ELSE Enqueue(c.db, c.otd, HookListAttr(c.pkg), "manufacturer", "manufacturer", n.id)
    ELSE IF RowsByKey(c.db, "manufacturer", n.id) = {} THEN Raise(c, "DoesNotExist")
         ELSE Enqueue(c.db, c.otd, HookListAttr(c.pkg), "manufacturer", "manufacturer", n.id)

\* the lookup of the manufacturer sits in the except branch and is not wrapped itself
Hardware_create(c, n) ==
    IF RowsByKey(c.db, "devicetype", n.id) # {} THEN Ok(c, c.db)
    ELSE IF RowsByKey(c.db, "manufacturer", <<n.attrs.manufacturer>>) = {}
         THEN Raise(c, "DoesNotExist")
    ELSE Ok(c, [c.db EXCEPT !.devicetype = @ \cup
                  {[model |-> n.id[1], manufacturer |-> n.attrs.manufacturer]}])

Hardware_update(c, n) ==
    IF c.pkg = "sync" THEN Ok(c, c.db)
    ELSE IF GetById(c.db, "devicetype", uuid(n)) = {} THEN Raise(c, "DoesNotExist")
    ELSE Ok(c, c.db)

\* sync: get(name=) names a field DeviceType does not have
Hardware_delete(c, n) ==
    IF c.pkg = "ssot"
    THEN IF ~c.delete_on_sync THEN Ok(c, c.db)
         ELSE IF GetById(c.db, "devicetype", uuid(n)) = {} THEN Raise(c, "DoesNotExist")
         ELSE Enqueue(c.db, c.otd, HookListAttr(c.pkg), "device_type", "devicetype", n.id)
    ELSE Raise(c, "FieldError")

Null(c) == HookResult("null", c.db, c.otd, None)

\* Device._get_site: the name of the site, None when a lookup fell through, "False"
\* when the device names no building
Device_get_site(c, n) ==
    LET racks == {k \in c.db.rack : k.name = n.attrs.rack /\ k.group = n.attrs.room}
    IN IF c.pkg = "ssot"
       THEN IF ~Falsy(n.attrs.rack) /\ ~Falsy(n.attrs.room) /\ racks # {}
            THEN (CHOOSE k \in racks : TRUE).site
            ELSE IF Falsy(n.attrs.building) THEN "False"
            ELSE IF \E s \in c.db.site : s.slug = n.attrs.building
                 THEN (CHOOSE s \in c.db.site : s.slug = n.attrs.building).name
                 ELSE None
       ELSE IF Falsy(n.attrs.building) THEN "False"
            ELSE IF \E s \in c.db.site : s.name = n.attrs.building THEN n.attrs.building
            ELSE None

\* the row Device.create builds before it places the device in a rack
NewDevice(n, site) ==
    WithTags([name |-> n.id[1], site |-> site, rack |-> "", group |-> "", position |-> None,
     face |-> "", device_type |-> n.attrs.hardware,
     status |-> IF Falsy(n.attrs.in_service) THEN "Offline" ELSE "Active",
     serial |-> IF Falsy(n.attrs.serial_no) THEN "" ELSE n.attrs.serial_no],
             n.attrs, get_tags(n.attrs.tags))

\* new_device.rack / position / face
Racked(d, n) ==
    [d EXCEPT !.rack = n.attrs.rack, !.group = n.attrs.room,
              !.position = IF Falsy(n.attrs.rack_position) THEN None ELSE n.attrs.rack_position,
              !.face = IF Falsy(n.attrs.rack_orientation) THEN "front"
                       ELSE n.attrs.rack_orientation]

\* validated_save of the new device: ValidationError escapes the hook (in ssot the
\* first validated_save stands outside the try that catches it)
SaveNewDevice(c, D, d) ==
    IF RackUnitTaken(D, d) THEN Raise(c, "ValidationError")
    ELSE Ok(c, [D EXCEPT !.device = @ \cup {d}])

Device_create(c, n) ==
    LET site == Device_get_site(c, n)
        racks == {k \in c.db.rack : k.name = n.attrs.rack /\ k.group = n.attrs.room}
        devs == {o \in c.db.device : /\ o.rack = n.attrs.rack /\ o.group = n.attrs.room
                                     /\ o.position = n.attrs.rack_position
                                     /\ o.face = n.attrs.rack_orientation}
        role_missing == HasTags(n) /\ find_device_role_from_tags(c.cfg, n.attrs.tags).exc # None
    IN IF c.pkg = "ssot"
       THEN IF role_missing THEN Raise(c, "MissingConfigSetting")
            ELSE IF RowsByKey(c.db, "devicetype", <<n.attrs.hardware>>) = {} THEN Null(c)
            ELSE IF site \in {None, "False"} THEN Null(c)
            ELSE IF Falsy(n.attrs.rack) THEN SaveNewDevice(c, c.db, NewDevice(n, site))
            ELSE IF Cardinality(devs) = 1
                 THEN SaveNewDevice(c, [c.db EXCEPT !.device =
                                          (@ \ devs) \cup {[o EXCEPT !.position = None] : o \in devs}],
                                    NewDevice(n, site))
            ELSE IF racks = {} THEN Null(c)
            ELSE SaveNewDevice(c, c.db, Racked(NewDevice(n, site), n))
       ELSE IF Falsy(n.attrs.building) THEN Null(c)
            ELSE IF role_missing THEN Raise(c, "MissingConfigSetting")
            ELSE IF RowsByKey(c.db, "devicetype", <<n.attrs.hardware>>) = {} THEN Null(c)
            ELSE IF site \in {None, "False"} THEN Null(c)
            ELSE IF Falsy(n.attrs.rack) THEN SaveNewDevice(c, c.db, NewDevice(n, site))
            ELSE IF {k \in racks : k.site = site} = {} THEN Null(c)
            ELSE SaveNewDevice(c, c.db, Racked(NewDevice(n, site), n))

\* the lookup by uuid comes first; past it the attributes handed over are written
Device_update(c, n) ==
    LET rows == GetById(c.db, "device", uuid(n))
    IN IF c.pkg = "sync" THEN Ok(c, c.db)
       ELSE IF rows = {} THEN Raise(c, "DoesNotExist")
       ELSE IF Falsy(AttrGet(n, "serial_no")) THEN Ok(c, c.db)
       ELSE Ok(c, [c.db EXCEPT !.device = (@ \ rows) \cup
                     {[r EXCEPT !.serial = n.attrs.serial_no] : r \in rows}])

Device_delete(c, n) ==
    IF c.pkg = "ssot"
    THEN IF ~c.delete_on_sync THEN Ok(c, c.db)
         ELSE IF GetById(c.db, "device", uuid(n)) = {} THEN Raise(c, "DoesNotExist")
         ELSE Enqueue(c.db, c.otd, HookListAttr(c.pkg), "device", "device", n.id)
    ELSE IF RowsByKey(c.db, "device", n.id) = {} THEN Raise(c, "DoesNotExist")
         ELSE Enqueue(c.db, c.otd, HookListAttr(c.pkg), "device", "device", n.id)

\* when the device is missing: ssot returns False if debug is on and falls off the
\* end (None) otherwise; sync prints and falls off the end
Port_create(c, n) ==
    IF Falsy(n.id[1]) THEN Null(c)
    ELSE IF RowsByKey(c.db, "device", <<n.id[1]>>) = {}
         THEN IF c.pkg = "ssot" /\ c.debug THEN HookResult("false", c.db, c.otd, None)
              ELSE Null(c)
    ELSE Ok(c, [c.db EXCEPT !.interface = @ \cup
                  {[device |-> n.id[1], name |-> n.id[2], enabled |-> is_truthy(n.attrs.enabled)]}])

Port_update(c, n) ==
    IF c.pkg = "sync" THEN Ok(c, c.db)
    ELSE IF GetById(c.db, "interface", uuid(n)) = {} THEN Raise(c, "DoesNotExist")
    ELSE Ok(c, c.db)

Port_delete(c, n) ==
    IF c.pkg = "ssot"
    THEN IF ~c.delete_on_sync THEN Ok(c, c.db)
         ELSE IF GetById(c.db, "interface", uuid(n)) = {} THEN Raise(c, "DoesNotExist")
         ELSE Enqueue(c.db, c.otd, HookListAttr(c.pkg), "port", "interface", n.id)
    ELSE IF RowsByKey(c.db, "interface", n.id) = {} THEN Raise(c, "DoesNotExist")
         ELSE Enqueue(c.db, c.otd, HookListAttr(c.pkg), "port", "interface", n.id)

VRFGroup_create(c, n) ==
    Ok(c, [c.db EXCEPT !.vrf = @ \cup {[name |-> n.id[1], description |-> n.attrs.description]}])

VRFGroup_update(c, n) ==
    LET rows == RowsByKey(c.db, "vrf", n.id)
    IN IF rows = {} THEN Raise(c, "DoesNotExist")
       ELSE IF Falsy(AttrGet(n, "description")) THEN Ok(c, c.db)
       ELSE Ok(c, [c.db EXCEPT !.vrf = (@ \ rows) \cup
                     {[r EXCEPT !.description = n.attrs.description] : r \in rows}])

\* not gated by delete_on_sync
VRFGroup_delete(c, n) ==
    IF c.pkg = "ssot"
    THEN IF GetById(c.db, "vrf", uuid(n)) = {} THEN Raise(c, "DoesNotExist")
         ELSE Enqueue(c.db, c.otd, HookListAttr(c.pkg), "vrf", "vrf", n.id)
    ELSE IF RowsByKey(c.db, "vrf", n.id) = {} THEN Raise(c, "DoesNotExist")
         ELSE Enqueue(c.db, c.otd, HookListAttr(c.pkg), "vrf", "vrf", n.id)

\* vrf=NautobotVRF.objects.get(name=ids["vrf"]) is not wrapped
Subnet_create(c, n) ==
    IF RowsByKey(c.db, "vrf", <<n.id[3]>>) = {} THEN Raise(c, "DoesNotExist")
    ELSE Ok(c, [c.db EXCEPT !.prefix = @ \cup
                  {[network |-> n.id[1], mask |-> n.id[2], vrf |-> n.id[3],
                    description |-> n.attrs.description]}])

Subnet_update(c, n) ==
    LET rows == IF c.pkg = "ssot" THEN GetById(c.db, "prefix", uuid(n))
                ELSE RowsByKey(c.db, "prefix", n.id)
    IN IF rows = {} THEN Raise(c, "DoesNotExist")
       ELSE IF Falsy(AttrGet(n, "description")) THEN Ok(c, c.db)
       ELSE Ok(c, [c.db EXCEPT !.prefix = (@ \ rows) \cup
                     {[r EXCEPT !.description = n.attrs.description] : r \in rows}])

\* sync: the hook's first statement formats self.name, which Subnet does not have
Subnet_delete(c, n) ==
    IF c.pkg = "ssot"
    THEN IF GetById(c.db, "prefix", uuid(n)) = {} THEN Raise(c, "DoesNotExist")
         ELSE Enqueue(c.db, c.otd, HookListAttr(c.pkg), "subnet", "prefix", n.id)
    ELSE Raise(c, "AttributeError")

\* the vrf of an address: an identifier in ssot, an attribute in sync
IPAddress_vrf(c, n) == IF c.pkg = "ssot" THEN n.id[2] ELSE n.attrs.vrf

IPAddress_create(c, n) ==
    IF ~Falsy(IPAddress_vrf(c, n)) /\ RowsByKey(c.db, "vrf", <<IPAddress_vrf(c, n)>>) = {}
    THEN Raise(c, "DoesNotExist")
    ELSE Ok(c, [c.db EXCEPT !.ipaddress = @ \cup
                  {[address |-> n.id[1], vrf |-> IPAddress_vrf(c, n),
                    description |-> IF c.pkg = "ssot" /\ ~Falsy(n.attrs.label)
                                    THEN n.attrs.label ELSE ""]}])

\* ssot: the lookup by uuid fails, the hook logs and returns nothing
IPAddress_update(c, n) ==
    IF c.pkg = "ssot"
    THEN IF GetById(c.db, "ipaddress", uuid(n)) = {} THEN Null(c) ELSE Ok(c, c.db)
    ELSE IF {a \in c.db.ipaddress : a.address = n.id[1]} = {} THEN Raise(c, "DoesNotExist")
         ELSE Ok(c, c.db)

\* a mutation of IPAddress_delete: the ssot hook deletes the address at once
IPAddress_delete_at_once(c, n) ==
    LET rows == {a \in c.db.ipaddress : a.address = n.id[1]}
    IN IF rows = {} THEN Raise(c, "DoesNotExist")
       ELSE Ok(c, [c.db EXCEPT !.ipaddress = @ \ rows])

\* sync: deletes at once instead of queueing
IPAddress_delete(c, n) ==
    IF c.pkg = "ssot"
    THEN IF GetById(c.db, "ipaddress", uuid(n)) = {} THEN Raise(c, "DoesNotExist")
         ELSE Enqueue(c.db, c.otd, HookListAttr(c.pkg), "ipaddr", "ipaddress", n.id)
    ELSE LET rows == {a \in c.db.ipaddress : a.address = n.id[1]}
         IN IF rows = {} THEN Raise(c, "DoesNotExist")
            ELSE Ok(c, [c.db EXCEPT !.ipaddress = @ \ rows])

\* the hook the executor calls for a node
Hook(c, n) ==
    CASE n.type = "building" ->
            (CASE n.action = "create" -> Building_create(c, n)
               [] n.action = "update" -> Building_update(c, n)
               [] OTHER -> Building_delete(c, n))
      [] n.type = "room" ->
            (CASE n.action = "create" -> Room_create(c, n)
               [] n.action = "update" -> Room_update(c, n)
               [] OTHER -> Room_delete(c, n))
      [] n.type = "rack" ->
            (CASE n.action = "create" -> Rack_create(c, n)
               [] n.action = "update" -> Rack_update(c, n)
               [] OTHER -> Rack_delete(c, n))
      [] n.type = "vendor" ->
            (CASE n.action = "create" -> Vendor_create(c, n)
               [] n.action = "update" -> Vendor_update(c, n)
               [] OTHER -> Vendor_delete(c, n))
      [] n.type = "hardware" ->
            (CASE n.action = "create" -> Hardware_create(c, n)
               [] n.action = "update" -> Hardware_update(c, n)
               [] OTHER -> Hardware_delete(c, n))
      [] n.type = "vrf" ->
            (CASE n.action = "create" -> VRFGroup_create(c, n)
               [] n.action = "update" -> VRFGroup_update(c, n)
               [] OTHER -> VRFGroup_delete(c, n))
      [] n.type = "subnet" ->
            (CASE n.action = "create" -> Subnet_create(c, n)
               [] n.action = "update" -> Subnet_update(c, n)
               [] OTHER -> Subnet_delete(c, n))
      [] n.type = "device" ->
            (CASE n.action = "create" -> Device_create(c, n)
               [] n.action = "update" -> Device_update(c, n)
               [] OTHER -> Device_delete(c, n))
      [] n.type = "port" ->
            (CASE n.action = "create" -> Port_create(c, n)
               [] n.action = "update" -> Port_update(c, n)
               [] OTHER -> Port_delete(c, n))
      [] n.type = "ipaddr" ->
            (CASE n.action = "create" -> IPAddress_create(c, n)
               [] n.action = "update" -> IPAddress_update(c, n)
               [] OTHER -> IPAddress_delete(c, n))

(***************************************************************************)
(* The diff engine and the ordering of its nodes                           *)
(***************************************************************************)
IdsOf(st, t) == {e.id : e \in {x \in st.ents : x.type = t}}

ChildIds(st, pt, pid, ct) ==
    {k[4] : k \in {x \in st.kids : x[1] = pt /\ x[2] = pid /\ x[3] = ct}}

\* one node of the diff: create when only the source has the entity, delete when only
\* the destination has it, update when attributes differ, skip otherwise
DiffNode(src, dst, t, id, parent) ==
    IF ~Has(dst, t, id)
    THEN [type |-> t, id |-> id, action |-> "create", attrs |-> Get(src, t, id).attrs,
          changed |-> DOMAIN Get(src, t, id).attrs, parent |-> parent]
    ELSE IF ~Has(src, t, id)
    THEN [type |-> t, id |-> id, action |-> "delete", attrs |-> Get(dst, t, id).attrs,
          changed |-> {}, parent |-> parent]
    ELSE LET s == Get(src, t, id).attrs
             d == Get(dst, t, id).attrs
             diffs == {a \in DOMAIN s : s[a] # d[a]}
         IN [type |-> t, id |-> id, action |-> IF diffs = {} THEN "skip" ELSE "update",
             attrs |-> s, changed |-> diffs, parent |-> parent]

\* CustomOrderingDiff.order_children_default: alphabetical by unique id
order_children_default(S) == SortedIds(S)

\* a mutation of order_children_device: creations ahead of deletions
order_children_device_create_first(S) ==
    SortedIds({n \in S : n.action = "create"}) \o SortedIds({n \in S : n.action = "delete"})
        \o SortedIds({n \in S : n.action = "update"}) \o SortedIds({n \in S : n.action = "skip"})

\* CustomOrderingDiff.order_children_device: delete, create, update, skip
order_children_device(S) ==
    SortedIds({n \in S : n.action = "delete"}) \o SortedIds({n \in S : n.action = "create"})
        \o SortedIds({n \in S : n.action = "update"}) \o SortedIds({n \in S : n.action = "skip"})

\* the ssot job passes diff_class=CustomOrderingDiff, the sync job passes none
OrderChildren(p, t, S) ==
    IF p = "ssot" /\ t = "device" THEN order_children_device(S) ELSE order_children_default(S)

\* the nodes of one type under one parent, each followed by its children
RECURSIVE WalkNodes(_, _, _, _, _, _)
WalkNodes(p, src, dst, t, ids, parent) ==
    LET ordered == OrderChildren(p, t, {DiffNode(src, dst, t, id, parent) : id \in ids})
        sub(n) == Flatten([k \in 1..Len(ModelChildren[t]) |->
                    WalkNodes(p, src, dst, ModelChildren[t][k],
                              ChildIds(src, t, n.id, ModelChildren[t][k])
                                \cup ChildIds(dst, t, n.id, ModelChildren[t][k]),
                              <<t, n.id>>)])
    IN Flatten([k \in 1..Len(ordered) |-> <<ordered[k]>> \o sub(ordered[k])])

\* diff_from: the forest, flattened in the order the executor walks it
DiffFrom(p, src, dst) ==
    Flatten([k \in 1..Len(top_level[p]) |->
        WalkNodes(p, src, dst, top_level[p][k],
                  IdsOf(src, top_level[p][k]) \cup IdsOf(dst, top_level[p][k]), <<>>)])

\* diff.dict(): what is saved with the job's Sync record
DiffDict(d) == {[type |-> d[k].type, id |-> d[k].id, action |-> d[k].action] : k \in 1..Len(d)}

(***************************************************************************)
(* The data a run starts from: what Device42 returns and what Nautobot     *)
(* holds.  One building B1 with room r1 and rack k1, vendor m1 with        *)
(* hardware h1, vrf v1 with subnet 10.0.0.0/24 and address 10.0.0.5/24,    *)
(* and MaxDevices devices, all bound for unit 3 of k1; d1 has port p1.     *)
(***************************************************************************)
DevPool == <<"d1", "d2", "d3">>

Devs == {DevPool[i] : i \in 1..MaxDevices}

RECURSIVE SetToSeq(_)
SetToSeq(S) == IF S = {} THEN <<>>
               ELSE LET x == CHOOSE y \in S : TRUE IN <<x>> \o SetToSeq(S \ {x})

\* records of the Device42 API
BuildingRec(addr) == [name |-> "B1", address |-> addr, rooms |-> <<>>]
RoomRec == [name |-> "r1", building |-> "B1"]
RackRec == [name |-> "k1", building |-> "B1", room |-> "r1"]
VendorRec == [name |-> "m1"]
HardwareRec == [name |-> "h1", manufacturer |-> "m1"]
VrfRec(desc) == [name |-> "v1", description |-> desc]
SubnetRec(desc) == [network |-> "10.0.0.0", mask_bits |-> "24", name |-> desc, vrf |-> "v1"]
IpRec == [ip_address |-> "10.0.0.5", netmask |-> "24", vrf |-> "v1", label |-> ""]
PortRec == [port_name |-> "p1", device_name |-> "d1", up_admin |-> "True"]
DeviceRec(name, racked, serial) ==
    [name |-> name, building |-> "B1", room |-> IF racked THEN "r1" ELSE "",
     rack |-> IF racked THEN "k1" ELSE "", start_at |-> IF racked THEN "3" ELSE "",
     orientation |-> IF racked THEN "1" ELSE "", hw_model |-> "h1", in_service |-> "True",
     serial_no |-> serial]

\* rows of Nautobot
SiteRow(addr) == [name |-> "B1", slug |-> "b1", physical_address |-> addr]
RackGroupRow == [name |-> "r1", site |-> "B1"]
RackRow == [name |-> "k1", site |-> "B1", group |-> "r1"]
ManufacturerRow == [name |-> "m1"]
DeviceTypeRow == [model |-> "h1", manufacturer |-> "m1"]
VrfRow(desc) == [name |-> "v1", description |-> desc]
PrefixRow(desc) == [network |-> "10.0.0.0", mask |-> "24", vrf |-> "v1", description |-> desc]
IpRow == [address |-> "10.0.0.5/24", vrf |-> "v1", description |-> ""]
InterfaceRow == [device |-> "d1", name |-> "p1", enabled |-> "True"]
DeviceRow(name, racked) ==
    [name |-> name, site |-> "B1", rack |-> IF racked THEN "k1" ELSE "",
     group |-> IF racked THEN "r1" ELSE "", position |-> IF racked THEN "3" ELSE None,
     face |-> IF racked THEN "front" ELSE "", device_type |-> "h1", status |-> "Active",
     serial |-> "s"]

NoRecords ==
    [buildings |-> <<>>, rooms |-> <<>>, racks |-> <<>>, vendors |-> <<>>, hardware |-> <<>>,
     vrfs |-> <<>>, subnets |-> <<>>, devices |-> <<>>, ports |-> <<>>, ips |-> <<>>]

NoRows == [t \in Tables |-> {}]

\* the site tree, the hardware catalogue and the address space as Device42 may return them
D42SiteTrees ==
    {[buildings |-> <<>>, rooms |-> <<>>, racks |-> <<>>],
     [buildings |-> <<BuildingRec("")>>, rooms |-> <<>>, racks |-> <<>>],
     [buildings |-> <<BuildingRec("x")>>, rooms |-> <<>>, racks |-> <<>>],
     [buildings |-> <<BuildingRec("x")>>, rooms |-> <<RoomRec>>, racks |-> <<>>],
     [buildings |-> <<BuildingRec("x")>>, rooms |-> <<RoomRec>>, racks |-> <<RackRec>>],
     [buildings |-> <<>>, rooms |-> <<RoomRec>>, racks |-> <<>>]}

D42FullSite == [buildings |-> <<BuildingRec("x")>>, rooms |-> <<RoomRec>>, racks |-> <<RackRec>>]

D42Catalogues ==
    {[vendors |-> <<>>, hardware |-> <<>>],
     [vendors |-> <<VendorRec>>, hardware |-> <<>>],
     [vendors |-> <<VendorRec>>, hardware |-> <<HardwareRec>>],
     [vendors |-> <<>>, hardware |-> <<HardwareRec>>],
     [vendors |-> <<VendorRec, VendorRec>>, hardware |-> <<HardwareRec, HardwareRec>>]}

D42FullCatalogue == [vendors |-> <<VendorRec>>, hardware |-> <<HardwareRec>>]

D42Ipams ==
    {[vrfs |-> <<>>, subnets |-> <<>>, ips |-> <<>>],
     [vrfs |-> <<VrfRec("x")>>, subnets |-> <<>>, ips |-> <<>>],
     [vrfs |-> <<VrfRec("")>>, subnets |-> <<>>, ips |-> <<>>],
     [vrfs |-> <<VrfRec("x")>>, subnets |-> <<SubnetRec("x")>>, ips |-> <<>>],
     [vrfs |-> <<VrfRec("x")>>, subnets |-> <<SubnetRec("y")>>, ips |-> <<IpRec>>],
     [vrfs |-> <<>>, subnets |-> <<SubnetRec("x")>>, ips |-> <<>>],
     [vrfs |-> <<>>, subnets |-> <<SubnetRec("x")>>, ips |-> <<IpRec>>]}

D42FullIpam == [vrfs |-> <<VrfRec("x")>>, subnets |-> <<SubnetRec("x")>>, ips |-> <<IpRec>>]

\* the same three parts as Nautobot may hold them (references always resolve)
NbSiteTrees ==
    {[site |-> {}, rackgroup |-> {}, rack |-> {}],
     [site |-> {SiteRow("")}, rackgroup |-> {}, rack |-> {}],
     [site |-> {SiteRow("x")}, rackgroup |-> {}, rack |-> {}],
     [site |-> {SiteRow("x")}, rackgroup |-> {RackGroupRow}, rack |-> {}],
     [site |-> {SiteRow("x")}, rackgroup |-> {RackGroupRow}, rack |-> {RackRow}]}

NbFullSite == [site |-> {SiteRow("x")}, rackgroup |-> {RackGroupRow}, rack |-> {RackRow}]

NbCatalogues ==
    {[manufacturer |-> {}, devicetype |-> {}],
     [manufacturer |-> {ManufacturerRow}, devicetype |-> {}],
     [manufacturer |-> {ManufacturerRow}, devicetype |-> {DeviceTypeRow}]}

NbFullCatalogue == [manufacturer |-> {ManufacturerRow}, devicetype |-> {DeviceTypeRow}]

NbIpams ==
    {[vrf |-> {}, prefix |-> {}, ipaddress |-> {}],
     [vrf |-> {VrfRow("x")}, prefix |-> {}, ipaddress |-> {}],
     [vrf |-> {VrfRow("x")}, prefix |-> {PrefixRow("x")}, ipaddress |-> {}],
     [vrf |-> {VrfRow("x")}, prefix |-> {PrefixRow("x")}, ipaddress |-> {IpRow}]}

NbFullIpam == [vrf |-> {VrfRow("x")}, prefix |-> {PrefixRow("x")}, ipaddress |-> {IpRow}]

Merge(a, b) == [k \in DOMAIN a \cup DOMAIN b |-> IF k \in DOMAIN b THEN b[k] ELSE a[k]]

NoD42Devices == [devices |-> <<>>, ports |-> <<>>]

\* d1 absent, racked or unracked, with or without the record of its port (a port
\* record may name a device Device42 does not return); the other devices racked or absent
D42DeviceSets ==
    {[devices |-> first \o SetToSeq({DeviceRec(x, TRUE, "s") : x \in others}),
      ports |-> IF port THEN <<PortRec>> ELSE <<>>] :
        first \in {<<>>, <<DeviceRec("d1", TRUE, "s")>>, <<DeviceRec("d1", TRUE, "t")>>,
                   <<DeviceRec("d1", FALSE, "s")>>},
        port \in BOOLEAN,
        others \in SUBSET (Devs \ {"d1"})}

D42OneDevice ==
    {NoD42Devices,
     [devices |-> <<DeviceRec("d1", TRUE, "s")>>, ports |-> <<PortRec>>],
     [devices |-> <<DeviceRec("d1", FALSE, "s")>>, ports |-> <<PortRec>>]}

\* a rack unit holds one device; an interface belongs to a device that exists
NbDeviceSets ==
    {[device |-> first \cup {DeviceRow(x, TRUE) : x \in other},
      interface |-> IF port THEN {InterfaceRow} ELSE {}] :
        first \in {{}, {DeviceRow("d1", TRUE)}, {DeviceRow("d1", FALSE)}},
        port \in BOOLEAN,
        other \in {S \in SUBSET (Devs \ {"d1"}) : Cardinality(S) <= 1}}

NbDevicesOk(x) ==
    /\ x.interface # {} => \E d \in x.device : d.name = "d1"
    /\ Cardinality({d \in x.device : d.rack # ""}) <= 1

\* the runs explored: one part of the data varies on both sides, the rest is the
\* same in Device42 and in Nautobot
DeviceScenarios ==
    {[records |-> Merge(Merge(Merge(NoRecords, D42FullSite), D42FullCatalogue),
                        Merge(D42FullIpam, dd)),
      rows |-> Merge(Merge(Merge(NoRows, NbFullSite), NbFullCatalogue), Merge(NbFullIpam, nd))] :
        dd \in D42DeviceSets, nd \in {x \in NbDeviceSets : NbDevicesOk(x)}}

SiteScenarios ==
    {[records |-> Merge(Merge(Merge(NoRecords, ds), D42FullCatalogue), Merge(D42FullIpam, dd)),
      rows |-> Merge(Merge(Merge(NoRows, ns), NbFullCatalogue), NbFullIpam)] :
        ds \in D42SiteTrees, ns \in NbSiteTrees,
        dd \in {NoD42Devices, [devices |-> <<DeviceRec("d1", FALSE, "s")>>, ports |-> <<PortRec>>]}}

IpamScenarios ==
    {[records |-> Merge(Merge(NoRecords, dc), di),
      rows |-> Merge(Merge(Merge(NoRows, ns), NbFullCatalogue), ni)] :
        di \in D42Ipams, ni \in NbIpams,
        ns \in {[site |-> {}], [site |-> {SiteRow("x")}]},
        dc \in {D42FullCatalogue, [vendors |-> <<>>]}}

CatalogueScenarios ==
    {[records |-> Merge(Merge(Merge(NoRecords, D42FullSite), dc), Merge(D42FullIpam, dd)),
      rows |-> Merge(Merge(Merge(NoRows, NbFullSite), nc), NbFullIpam)] :
        dc \in D42Catalogues, nc \in NbCatalogues, dd \in D42OneDevice}

\* a first run: Device42 holds everything, Nautobot holds nothing yet
FirstRunScenarios ==
    {[records |-> Merge(Merge(Merge(NoRecords, D42FullSite), D42FullCatalogue),
                        Merge(D42FullIpam, dd)),
      rows |-> NoRows] : dd \in D42OneDevice}

\* a record with the tags Device42 returns for it
Tagged(r, tags) == [k \in DOMAIN r \cup {"tags"} |-> IF k = "tags" THEN tags ELSE r[k]]

\* a first run on a tagged building and a tagged device
TaggedScenarios ==
    {[records |-> Merge(Merge(NoRecords, D42FullCatalogue),
                        [buildings |-> <<Tagged(BuildingRec("x"), bt)>>,
                         devices |-> <<Tagged(DeviceRec("d1", FALSE, "s"), dt)>>]),
      rows |-> NoRows] : bt \in {<<>>, <<"site-f1">>, <<"ta", "site-f1">>},
                         dt \in {<<>>, <<"role-r1">>, <<"ta">>}}

\* the tag-prefix settings as an installation may have them
Settings == [facility_prepend : {"site-", None}, role_prepend : {"role-", None}]

Scenarios ==
    DeviceScenarios \cup SiteScenarios \cup IpamScenarios \cup CatalogueScenarios
        \cup FirstRunScenarios

(***************************************************************************)
(* The job: Device42DataSource.sync_data, step by step                     *)
(***************************************************************************)
Init ==
    /\ pkg \in {"ssot", "sync"}
    /\ dry_run \in BOOLEAN
    /\ debug \in IF pkg = "ssot" THEN BOOLEAN ELSE {FALSE}
    /\ delete_on_sync \in IF pkg = "ssot" THEN BOOLEAN ELSE {TRUE}
    /\ \/ /\ PLUGIN_CFG = Configured
          /\ \E sc \in Scenarios : d42_records = sc.records /\ db = sc.rows
       \/ /\ PLUGIN_CFG \in Settings
          /\ \E sc \in TaggedScenarios : d42_records = sc.records /\ db = sc.rows
    /\ run = 1
    /\ api = NoCall
    /\ d42_store = EmptyStore
    /\ nb_store = EmptyStore
    /\ diff = <<>>
    /\ saved_diff = [saved |-> FALSE, nodes |-> {}]
    /\ pc = "start"
    /\ idx = 1
    /\ objects_to_delete = [k \in DeleteListKeys[pkg] |-> <<>>]
    /\ sweep_pos = <<1, 1>>
    /\ hook_log = <<>>
    /\ sweep_log = <<>>
    /\ db_before = db
    /\ rediff = <<>>

\* d42_adapter.load(); an exception of the load ends the job
LoadDevice42 ==
    /\ pc = "start"
    /\ d42_store' = Device42Load(pkg, d42_records)
    /\ pc' = IF d42_store'.err # None THEN "failed" ELSE "d42_loaded"
    /\ UNCHANGED <<run, api, PLUGIN_CFG, pkg, dry_run, debug, delete_on_sync, d42_records, db, nb_store, diff,
                   saved_diff, idx, objects_to_delete, sweep_pos, hook_log, sweep_log,
                   db_before, rediff>>

\* nb_adapter.load()
LoadNautobot ==
    /\ pc = "d42_loaded"
    /\ nb_store' = NautobotLoad(pkg, db)
    /\ pc' = "nb_loaded"
    /\ UNCHANGED <<run, api, PLUGIN_CFG, pkg, dry_run, debug, delete_on_sync, d42_records, db, d42_store, diff,
                   saved_diff, idx, objects_to_delete, sweep_pos, hook_log, sweep_log,
                   db_before, rediff>>

\* diff = nb_adapter.diff_from(d42_adapter, ...); self.sync.diff = diff.dict(); self.sync.save()
DiffAndSave ==
    /\ pc = "nb_loaded"
    /\ diff' = DiffFrom(pkg, d42_store, nb_store)
    /\ saved_diff' = [saved |-> TRUE, nodes |-> DiffDict(diff')]
    /\ pc' = "diffed"
    /\ UNCHANGED <<run, api, PLUGIN_CFG, pkg, dry_run, debug, delete_on_sync, d42_records, db, d42_store, nb_store,
                   idx, objects_to_delete, sweep_pos, hook_log, sweep_log, db_before, rediff>>

\* if not self.kwargs["dry_run"]: ... else the job returns
DryRunEnd ==
    /\ pc = "diffed" /\ dry_run
    /\ pc' = "done"
    /\ UNCHANGED <<run, api, PLUGIN_CFG, pkg, dry_run, debug, delete_on_sync, d42_records, db, d42_store, nb_store,
                   diff, saved_diff, idx, objects_to_delete, sweep_pos, hook_log, sweep_log,
                   db_before, rediff>>

\* a mutation of SyncFrom: the synchronization starts in a dry run too
SyncFromAlways ==
    /\ pc = "diffed"
    /\ pc' = "walk"
    /\ idx' = 1
    /\ UNCHANGED <<run, api, PLUGIN_CFG, pkg, dry_run, debug, delete_on_sync, d42_records, db, d42_store, nb_store,
                   diff, saved_diff, objects_to_delete, sweep_pos, hook_log, sweep_log,
                   db_before, rediff>>

\* nb_adapter.sync_from(d42_adapter, ...) starts its walk
SyncFrom ==
    /\ pc = "diffed" /\ ~dry_run
    /\ pc' = "walk"
    /\ idx' = 1
    /\ UNCHANGED <<run, api, PLUGIN_CFG, pkg, dry_run, debug, delete_on_sync, d42_records, db, d42_store, nb_store,
                   diff, saved_diff, objects_to_delete, sweep_pos, hook_log, sweep_log,
                   db_before, rediff>>

Ctx == [pkg |-> pkg, debug |-> debug, delete_on_sync |-> delete_on_sync, db |-> db,
        otd |-> objects_to_delete, cfg |-> PLUGIN_CFG]

\* what the executor does to the destination store once a hook has returned its object
StoreAfter(st, n, kind) ==
    IF kind # "ok" THEN st
    ELSE CASE n.action = "create" ->
                [st EXCEPT !.ents = @ \cup {Entity(n.type, n.id, n.attrs)},
                           !.kids = IF n.parent = <<>> THEN @
                                    ELSE @ \cup {<<n.parent[1], n.parent[2], n.type, n.id>>}]
           [] n.action = "update" ->
                [st EXCEPT !.ents = {e \in @ : ~(e.type = n.type /\ e.id = n.id)}
                                      \cup {Entity(n.type, n.id, n.attrs)}]
           [] OTHER ->
                [st EXCEPT !.ents = {e \in @ : ~(e.type = n.type /\ e.id = n.id)},
                           !.kids = {k \in @ : ~(k[3] = n.type /\ k[4] = n.id)}]

\* a mutation of SyncElement: an exception of the hook ends the walk
SyncElementAbort(a) ==
    /\ pc = "walk" /\ idx <= Len(diff) /\ diff[idx].action = a
    /\ LET r == Hook(Ctx, diff[idx])
       IN /\ db' = r.db
          /\ objects_to_delete' = r.otd
          /\ nb_store' = StoreAfter(nb_store, diff[idx], r.kind)
          /\ hook_log' = Append(hook_log, [idx |-> idx, type |-> diff[idx].type,
                                           id |-> diff[idx].id, action |-> a,
                                           result |-> r.kind, exc |-> r.exc,
                                           queued |-> r.otd # objects_to_delete])
          /\ pc' = IF r.kind = "raise" THEN "failed" ELSE pc
    /\ idx' = idx + 1
    /\ UNCHANGED <<run, api, PLUGIN_CFG, pkg, dry_run, debug, delete_on_sync, d42_records, d42_store, diff,
                   saved_diff, sweep_pos, sweep_log, db_before, rediff>>

\* the executor processes the next node: it calls the hook of the node's action; an
\* exception that escapes the hook is logged against the node and the walk goes on
SyncElement(a) ==
    /\ pc = "walk" /\ idx <= Len(diff) /\ diff[idx].action = a
    /\ LET r == Hook(Ctx, diff[idx])
       IN /\ db' = r.db
          /\ objects_to_delete' = r.otd
          /\ nb_store' = StoreAfter(nb_store, diff[idx], r.kind)
          /\ hook_log' = Append(hook_log, [idx |-> idx, type |-> diff[idx].type,
                                           id |-> diff[idx].id, action |-> a,
                                           result |-> r.kind, exc |-> r.exc,
                                           queued |-> r.otd # objects_to_delete])
    /\ idx' = idx + 1
    /\ UNCHANGED <<run, api, PLUGIN_CFG, pkg, dry_run, debug, delete_on_sync, d42_records, d42_store, diff,
                   saved_diff, pc, sweep_pos, sweep_log, db_before, rediff>>

SyncCreate == SyncElement("create")

SyncUpdate == SyncElement("update")

SyncDelete == SyncElement("delete")

\* a node whose action is skip calls no hook
SyncSkip ==
    /\ pc = "walk" /\ idx <= Len(diff) /\ diff[idx].action = "skip"
    /\ idx' = idx + 1
    /\ UNCHANGED <<run, api, PLUGIN_CFG, pkg, dry_run, debug, delete_on_sync, d42_records, db, d42_store, nb_store,
                   diff, saved_diff, pc, objects_to_delete, sweep_pos, hook_log, sweep_log,
                   db_before, rediff>>

\* the walk is over: the executor calls sync_complete
SyncComplete ==
    /\ pc = "walk" /\ idx > Len(diff)
    /\ pc' = "sweep"
    /\ sweep_pos' = <<1, 1>>
    /\ UNCHANGED <<run, api, PLUGIN_CFG, pkg, dry_run, debug, delete_on_sync, d42_records, db, d42_store, nb_store,
                   diff, saved_diff, idx, objects_to_delete, hook_log, sweep_log, db_before,
                   rediff>>

Grouping == SweepOrder[pkg][sweep_pos[1]]

\* a mutation of SweepDelete: ProtectedError is not caught and ends the job
SweepDeleteRaises ==
    /\ pc = "sweep" /\ sweep_pos[1] <= Len(SweepOrder[pkg])
    /\ sweep_pos[2] <= Len(objects_to_delete[Grouping])
    /\ LET obj == objects_to_delete[Grouping][sweep_pos[2]]
           res == ObjDelete(db, obj.tbl, obj.key)
       IN /\ db' = res.db
          /\ sweep_log' = Append(sweep_log, [grouping |-> Grouping, obj |-> obj,
                                             result |-> res.err])
          /\ pc' = IF res.err = None THEN pc ELSE "failed"
    /\ sweep_pos' = <<sweep_pos[1], sweep_pos[2] + 1>>
    /\ UNCHANGED <<run, api, PLUGIN_CFG, pkg, dry_run, debug, delete_on_sync, d42_records, d42_store, nb_store,
                   diff, saved_diff, idx, objects_to_delete, hook_log, db_before, rediff>>

\* sync_complete, one object: try: nautobot_object.delete() except ProtectedError: log
SweepDelete ==
    /\ pc = "sweep" /\ sweep_pos[1] <= Len(SweepOrder[pkg])
    /\ sweep_pos[2] <= Len(objects_to_delete[Grouping])
    /\ LET obj == objects_to_delete[Grouping][sweep_pos[2]]
           res == ObjDelete(db, obj.tbl, obj.key)
       IN /\ db' = res.db
          /\ sweep_log' = Append(sweep_log, [grouping |-> Grouping, obj |-> obj,
                                             result |-> res.err])
    /\ sweep_pos' = <<sweep_pos[1], sweep_pos[2] + 1>>
    /\ UNCHANGED <<run, api, PLUGIN_CFG, pkg, dry_run, debug, delete_on_sync, d42_records, d42_store, nb_store,
                   diff, saved_diff, pc, idx, objects_to_delete, hook_log, db_before, rediff>>

\* sync_complete, end of one grouping: self._objects_to_delete[grouping] = []
SweepNextGrouping ==
    /\ pc = "sweep" /\ sweep_pos[1] <= Len(SweepOrder[pkg])
    /\ sweep_pos[2] > Len(objects_to_delete[Grouping])
    /\ objects_to_delete' = [objects_to_delete EXCEPT ![Grouping] = <<>>]
    /\ sweep_pos' = <<sweep_pos[1] + 1, 1>>
    /\ UNCHANGED <<run, api, PLUGIN_CFG, pkg, dry_run, debug, delete_on_sync, d42_records, db, d42_store, nb_store,
                   diff, saved_diff, pc, idx, hook_log, sweep_log, db_before, rediff>>

\* sync_complete returns, sync_from returns, the job logs its success
SweepEnd ==
    /\ pc = "sweep" /\ sweep_pos[1] > Len(SweepOrder[pkg])
    /\ pc' = "done"
    /\ UNCHANGED <<run, api, PLUGIN_CFG, pkg, dry_run, debug, delete_on_sync, d42_records, db, d42_store, nb_store,
                   diff, saved_diff, idx, objects_to_delete, sweep_pos, hook_log, sweep_log,
                   db_before, rediff>>

\* a second look at the result: Nautobot is loaded afresh and diffed against the same
\* Device42 store
ReloadAndDiff ==
    /\ pc = "done" /\ ~dry_run
    /\ rediff' = DiffFrom(pkg, d42_store, NautobotLoad(pkg, db))
    /\ pc' = "rechecked"
    /\ UNCHANGED <<run, api, PLUGIN_CFG, pkg, dry_run, debug, delete_on_sync, d42_records, db, d42_store, nb_store,
                   diff, saved_diff, idx, objects_to_delete, sweep_pos, hook_log, sweep_log,
                   db_before>>

Next ==
    \/ LoadDevice42
    \/ LoadNautobot
    \/ DiffAndSave
    \/ DryRunEnd
    \/ SyncFrom
    \/ SyncCreate
    \/ SyncUpdate
    \/ SyncDelete
    \/ SyncSkip
    \/ SyncComplete
    \/ SweepDelete
    \/ SweepNextGrouping
    \/ SweepEnd
    \/ ReloadAndDiff

Spec == Init /\ [][Next]_vars

(***************************************************************************)
(* Properties                                                              *)
(***************************************************************************)

\* C1: after a run that was not a dry run has finished, loading Nautobot afresh and
\* diffing it against the same Device42 store gives a diff whose every node is skip
C1_RediffAllSkip ==
    pc = "rechecked" => \A k \in 1..Len(rediff) : rediff[k].action = "skip"


\* what the create hooks store a reference to: grouping -> the groupings whose objects
\* its objects point at (Interface.device, Device.site/rack/device_type, Rack.site/group,
\* RackGroup.site, DeviceType.manufacturer, Prefix.vrf, IPAddress.vrf)
References ==
    [port |-> {"device"}, device |-> {"rack", "site", "device_type"},
     rack |-> {"rack_group", "site"}, rack_group |-> {"site"},
     device_type |-> {"manufacturer"}, subnet |-> {"vrf"}, ipaddr |-> {"vrf"},
     vrf |-> {}, site |-> {}, manufacturer |-> {}, cluster |-> {}, vlan |-> {},
     circuit |-> {}, provider |-> {}]

\* C2: while sync_complete drains a grouping, no grouping whose objects reference the
\* objects of that grouping is still to come: every referencing type is drained before
\* the type it references
C2_SweepChildFirst ==
    (pc = "sweep" /\ sweep_pos[1] <= Len(SweepOrder[pkg])) =>
        \A k \in (sweep_pos[1] + 1)..Len(SweepOrder[pkg]) :
            Grouping \notin References[SweepOrder[pkg][k]]

\* two device nodes name the same unit of the same rack
SameRackUnit(a, b) ==
    /\ a.attrs.rack_position # None
    /\ a.attrs.rack # ""
    /\ a.attrs.building = b.attrs.building
    /\ a.attrs.room = b.attrs.room
    /\ a.attrs.rack = b.attrs.rack
    /\ a.attrs.rack_position = b.attrs.rack_position
    /\ a.attrs.rack_orientation = b.attrs.rack_orientation

\* C3: when the create hook of a device is about to run, every device the diff deletes
\* from the same rack unit is already gone from Nautobot
C3_RemovedBeforeCreate ==
    (pc = "walk" /\ idx <= Len(diff) /\ diff[idx].type = "device"
        /\ diff[idx].action = "create") =>
        \A j \in 1..Len(diff) :
            (diff[j].type = "device" /\ diff[j].action = "delete"
                /\ SameRackUnit(diff[j], diff[idx]))
            => RowsByKey(db, "device", diff[j].id) = {}

\* C4: once a run that was not a dry run is over, no VRF the diff marked for deletion
\* is left in Nautobot
C4_VrfGone ==
    (pc \in {"done", "rechecked"} /\ ~dry_run) =>
        \A j \in 1..Len(diff) :
            (diff[j].type = "vrf" /\ diff[j].action = "delete")
            => RowsByKey(db, "vrf", diff[j].id) = {}


\* C5: in a dry run both adapters are loaded and the diff is computed and saved with
\* the job's record, but no hook runs, sync_complete does not run and Nautobot is left
\* as it was
C5_DryRunChangesNothing ==
    dry_run =>
        /\ hook_log = <<>>
        /\ sweep_log = <<>>
        /\ db = db_before
        /\ pc \notin {"walk", "sweep", "rechecked"}
        /\ \A g \in DOMAIN objects_to_delete : objects_to_delete[g] = <<>>
        /\ pc = "done" =>
            /\ d42_store = Device42Load(pkg, d42_records)
            /\ nb_store = NautobotLoad(pkg, db)
            /\ diff = DiffFrom(pkg, d42_store, nb_store)
            /\ saved_diff = [saved |-> TRUE, nodes |-> DiffDict(diff)]

\* a dry run has ended on a diff that asks for a creation and for a deletion
C5_DryRunDone ==
    /\ pc = "done" /\ dry_run
    /\ \E j \in 1..Len(diff) : diff[j].action = "create"
    /\ \E j \in 1..Len(diff) : diff[j].action = "delete"

\* C6: a ProtectedError in the sweep does not end the job, and when the sweep is over
\* every object the hooks queued has been attempted and every queue is empty
C6_SweepRunsToEnd ==
    /\ pc = "failed" => sweep_log = <<>>
    /\ (pc \in {"done", "rechecked"} /\ ~dry_run) =>
        /\ Len(sweep_log) = Cardinality({k \in 1..Len(hook_log) : hook_log[k].queued})
        /\ \A g \in DOMAIN objects_to_delete : objects_to_delete[g] = <<>>

\* the sweep is over, one deletion met ProtectedError and a later one was carried out
C6_ProtectedThenDeleted ==
    /\ pc = "done"
    /\ \E i, j \in 1..Len(sweep_log) :
        i < j /\ sweep_log[i].result = "ProtectedError" /\ sweep_log[j].result = None

\* C7: an exception that escapes a hook does not end the job: every node of the diff
\* that is not a skip has had its hook called by the time sync_complete runs
C7_WalkContinues ==
    /\ pc = "failed" => hook_log = <<>>
    /\ (pc \in {"sweep", "done", "rechecked"} /\ ~dry_run) =>
        \A j \in 1..Len(diff) :
            diff[j].action # "skip" => \E k \in 1..Len(hook_log) : hook_log[k].idx = j

\* the create hook of a Subnet raised for want of its VRF, a later hook was called
\* and sync_complete has run
C7_SubnetRaisedWalkWentOn ==
    /\ pc = "done"
    /\ \E i, j \in 1..Len(hook_log) :
        /\ i < j
        /\ hook_log[i].type = "subnet" /\ hook_log[i].action = "create"
        /\ hook_log[i].result = "raise" /\ hook_log[i].exc = "DoesNotExist"


\* C8: in the ssot package a create hook of a Device or of a Port that does not
\* produce its object returns null, whatever the debug setting is: it neither raises
\* nor returns anything else, and the entity is not added to the Nautobot store
C8_FailedCreateReturnsNull ==
    pkg = "ssot" =>
        \A k \in 1..Len(hook_log) :
            (hook_log[k].action = "create" /\ hook_log[k].type \in {"device", "port"}
                /\ hook_log[k].result # "ok")
            => /\ hook_log[k].result = "null"
               /\ ~Has(nb_store, hook_log[k].type, hook_log[k].id)


\* C9: when the create hook of a Subnet is about to run, the create hook of the VRF it
\* names has been called if the diff creates that VRF; when the create hook of a Room is
\* about to run, the create hook of its Building has been called if the diff creates it
C9_ParentCreateFirst ==
    (pc = "walk" /\ idx <= Len(diff) /\ diff[idx].action = "create") =>
        \A j \in 1..Len(diff) :
            (diff[j].action = "create"
                /\ \/ (diff[idx].type = "subnet" /\ diff[j].type = "vrf"
                        /\ diff[j].id = <<diff[idx].id[3]>>)
                   \/ (diff[idx].type = "room" /\ diff[j].type = "building"
                        /\ diff[idx].parent = <<"building", diff[j].id>>))
            => \E k \in 1..Len(hook_log) : hook_log[k].idx = j /\ hook_log[k].action = "create"

\* a run has created a VRF and then a Subnet in it, and a Building and then its Room
C9_BothPairsCreated ==
    /\ pc = "done"
    /\ \E i, j \in 1..Len(hook_log) :
        /\ i < j
        /\ hook_log[i].type = "vrf" /\ hook_log[i].action = "create"
        /\ hook_log[j].type = "subnet" /\ hook_log[j].action = "create"
        /\ hook_log[j].id[3] = hook_log[i].id[1]
        /\ hook_log[j].result = "ok"
    /\ \E i, j \in 1..Len(hook_log) :
        /\ i < j
        /\ hook_log[i].type = "building" /\ hook_log[i].action = "create"
        /\ hook_log[j].type = "room" /\ hook_log[j].action = "create"
        /\ hook_log[j].id[2] = hook_log[i].id[1]
        /\ hook_log[j].result = "ok"

\* the top-level type under which the nodes of a type are walked
RootType(t) == CASE t \in {"room", "rack"} -> "building" [] t = "port" -> "device" [] OTHER -> t

\* C10: the nodes of the diff, and so the hooks, come in the order of top_level: the
\* root types in the declared order, vendors, hardware and VRFs ahead of every device,
\* a device ahead of its ports, and every port ahead of every address
C10_WalkFollowsTopLevel ==
    /\ \A i, j \in 1..Len(diff) :
        i < j =>
            /\ IndexOf(top_level[pkg], RootType(diff[i].type))
                    <= IndexOf(top_level[pkg], RootType(diff[j].type))
            /\ ~(diff[i].type = "device" /\ diff[j].type \in {"vendor", "hardware", "vrf"})
            /\ ~(diff[i].type = "ipaddr" /\ diff[j].type \in {"port", "device"})
            /\ ~(diff[i].type = "port" /\ diff[j].type = "device"
                    /\ diff[i].parent = <<"device", diff[j].id>>)
    /\ \A j \in 1..Len(diff) :
        diff[j].type = "port" => \E i \in 1..(j - 1) : diff[j].parent = <<"device", diff[i].id>>
    /\ \A k, l \in 1..Len(hook_log) : k < l => hook_log[k].idx < hook_log[l].idx

\* a run has called the create hooks of a vendor, a hardware model, a VRF, a device,
\* its port and an address
C10_AllTypesWalked ==
    /\ pc = "done"
    /\ \A t \in {"vendor", "hardware", "vrf", "device", "port", "ipaddr"} :
        \E k \in 1..Len(hook_log) : hook_log[k].type = t /\ hook_log[k].action = "create"


\* the place of an action in the CRUD order of the devices
ActionRank(a) == CASE a = "delete" -> 1 [] a = "create" -> 2 [] a = "update" -> 3 [] OTHER -> 4

\* C11: in the ssot package the device nodes of the diff are every device of either
\* store exactly once, the deletions first, then the creations, then the updates, then
\* the skips, and by name within each of the four groups
C11_DevicesByCrudThenName ==
    pkg = "ssot" =>
        /\ \A i, j \in 1..Len(diff) :
            (i < j /\ diff[i].type = "device" /\ diff[j].type = "device") =>
                /\ diff[i].id # diff[j].id
                /\ \/ ActionRank(diff[i].action) < ActionRank(diff[j].action)
                   \/ /\ diff[i].action = diff[j].action
                      /\ UniqueRank(diff[i].id) < UniqueRank(diff[j].id)
        /\ pc = "diffed" =>
            {diff[k].id : k \in {x \in 1..Len(diff) : diff[x].type = "device"}}
                = IdsOf(d42_store, "device") \cup IdsOf(nb_store, "device")

\* the diff of an ssot run puts the deletion of d2 ahead of the creation of d1
C11_DeleteAheadOfCreate ==
    /\ pkg = "ssot" /\ pc = "diffed"
    /\ \E i, j \in 1..Len(diff) :
        /\ i < j
        /\ diff[i].type = "device" /\ diff[i].action = "delete" /\ diff[i].id = <<"d2">>
        /\ diff[j].type = "device" /\ diff[j].action = "create" /\ diff[j].id = <<"d1">>


\* a mutation of LoadOrder: the ports are loaded ahead of the devices
LoadOrderPortsFirst ==
    [ssot |-> [d42 |-> <<"building", "room", "rack", "vendor", "hardware", "vrf", "vlan",
                         "subnet", "port", "device", "ipaddr", "conn", "circuit">>,
               nb |-> <<"building", "room", "rack", "vendor", "hardware", "vrf", "vlan",
                        "subnet", "cluster", "port", "device", "ipaddr", "conn", "provider",
                        "circuit">>],
     sync |-> [d42 |-> <<"building", "room", "rack", "vendor", "hardware", "vrf", "vlan",
                         "subnet", "port", "device", "ipaddr", "conn">>,
               nb |-> <<"building", "room", "rack", "vendor", "hardware", "vrf", "vlan",
                        "subnet", "cluster", "port", "device", "ipaddr", "conn", "provider",
                        "circuit">>]]

\* the loaders load() calls, in its order, each named by the type it loads
\* (load_devices_and_clusters is "device", load_providers_and_circuits is "circuit")
LoadOrder ==
    [ssot |-> [d42 |-> <<"building", "room", "rack", "vendor", "hardware", "vrf", "vlan",
                         "subnet", "device", "port", "ipaddr", "conn", "circuit">>,
               nb |-> <<"building", "room", "rack", "vendor", "hardware", "vrf", "vlan",
                        "subnet", "cluster", "device", "port", "ipaddr", "conn", "provider",
                        "circuit">>],
     sync |-> [d42 |-> <<"building", "room", "rack", "vendor", "hardware", "vrf", "vlan",
                         "subnet", "device", "port", "ipaddr", "conn">>,
               nb |-> <<"building", "room", "rack", "vendor", "hardware", "vrf", "vlan",
                        "subnet", "cluster", "device", "port", "ipaddr", "conn", "provider",
                        "circuit">>]]

\* the types whose entities a loader looks up or names in the entities it builds
LoadRefs ==
    [building |-> {}, room |-> {"building"}, rack |-> {"building", "room"}, vendor |-> {},
     hardware |-> {"vendor"}, vrf |-> {}, vlan |-> {"building"}, subnet |-> {"vrf"},
     cluster |-> {}, device |-> {"building", "room", "rack", "hardware"},
     port |-> {"device"}, ipaddr |-> {"vrf", "device", "port"}, conn |-> {"device", "port"},
     provider |-> {}, circuit |-> {}]

\* one loader of Device42Adapter applied to the store; the runs explored hold no VLAN,
\* connection or circuit records, whose loaders then add nothing
RunLoader(t, p, st, recs) ==
    CASE t = "building" -> load_buildings(p, PLUGIN_CFG, st, recs.buildings)
      [] t = "room" -> load_rooms(st, recs.rooms)
      [] t = "rack" -> load_racks(st, recs.racks)
      [] t = "vendor" -> load_vendors(st, recs.vendors)
      [] t = "hardware" -> load_hardware_models(st, recs.hardware)
      [] t = "vrf" -> load_vrfgroups(st, recs.vrfs)
      [] t = "subnet" -> load_subnets(st, recs.subnets)
      [] t = "device" -> load_devices_and_clusters(p, st, recs.devices)
      [] t = "port" -> load_ports(st, recs.ports)
      [] t = "ipaddr" -> load_ip_addresses(p, st, recs.ips)
      [] OTHER -> st

\* the loaders of a sequence applied one after the other
RECURSIVE RunLoaders(_, _, _, _)
RunLoaders(order, p, st, recs) ==
    IF order = <<>> THEN st
    ELSE RunLoaders(Tail(order), p, RunLoader(Head(order), p, st, recs), recs)

\* the order the specification gives for load()
StatedLoadOrder ==
    <<"building", "room", "rack", "vendor", "hardware", "vrf", "subnet", "vlan", "cluster",
      "device", "port", "ipaddr", "conn", "circuit">>

\* the order with VLAN ahead of Subnet
VlanFirstLoadOrder ==
    <<"building", "room", "rack", "vendor", "hardware", "vrf", "vlan", "subnet", "cluster",
      "device", "port", "ipaddr", "conn", "circuit">>

\* the loaders of a sequence that a given order names come in that order
FollowsOrder(order, given) ==
    \A i, j \in 1..Len(order) :
        (i < j /\ order[i] \in Range(given) /\ order[j] \in Range(given))
        => IndexOf(given, order[i]) < IndexOf(given, order[j])

MaxConns == 2

\* what a cable can end on
Terminations ==
    {[kind |-> "interface", device |-> "d1", name |-> "p1"],
     [kind |-> "interface", device |-> "d2", name |-> "p1"],
     [kind |-> "interface", device |-> "d2", name |-> "p2"],
     [kind |-> "circuit", device |-> "c1", name |-> "c1"],
     [kind |-> "frontport", device |-> "f1", name |-> "1"],
     [kind |-> "frontport", device |-> "f1", name |-> "2"]}

\* the port connections Device42 may return
ConnRecords ==
    {[src_device |-> a.device, src_port |-> a.name, dst_device |-> b.device, dst_port |-> b.name] :
        a, b \in {t \in Terminations : t.kind = "interface"}} \
    {[src_device |-> a.device, src_port |-> a.name, dst_device |-> a.device, dst_port |-> a.name] :
        a \in Terminations}

\* sequences of at most n elements of S
SeqsUpTo(S, n) == UNION {[1..k -> S] : k \in 0..n}

\* the cables of Nautobot: a cable joins two terminations, a termination has one cable
CableLists ==
    {s \in SeqsUpTo([a : Terminations, b : Terminations], MaxConns) :
        /\ \A k \in 1..Len(s) : s[k].a # s[k].b
        /\ \A k, l \in 1..Len(s) : k # l => {s[k].a, s[k].b} \cap {s[l].a, s[l].b} = {}}

\* get_unique_id of a Connection
conn_id(o) == <<o.src_device, o.src_port, o.dst_device, o.dst_port>>

\* self.add(obj) for a Connection: held under the unique id the object has now
conn_add(st, o, oid) ==
    IF \E e \in st.ents : e.key = conn_id(o)
    THEN [st EXCEPT !.err = "ObjectAlreadyExists"]
    ELSE [st EXCEPT !.ents = @ \cup {[type |-> "conn", key |-> conn_id(o), id |-> conn_id(o),
                                     attrs |-> [src_type |-> o.src_type, dst_type |-> o.dst_type],
                                     oid |-> oid]}]

\* an object that is in the store already is changed in place
conn_mutate(st, o, oid) ==
    [st EXCEPT !.ents = {IF e.oid = oid
                         THEN [e EXCEPT !.id = conn_id(o),
                                        !.attrs = [src_type |-> o.src_type, dst_type |-> o.dst_type]]
                         ELSE e : e \in @}]

\* NautobotAdapter.add_src_connection
add_src_connection(t, o) ==
    IF t.kind = "interface" THEN [o EXCEPT !.src_port = t.name, !.src_device = t.device]
    ELSE IF t.kind = "circuit"
    THEN [o EXCEPT !.src_type = "circuit", !.src_port = t.name, !.src_device = t.name]
    ELSE o

\* NautobotAdapter.add_dst_connection
add_dst_connection(t, o) ==
    IF t.kind = "interface" THEN [o EXCEPT !.dst_port = t.name, !.dst_device = t.device]
    ELSE IF t.kind = "circuit"
    THEN [o EXCEPT !.dst_type = "circuit", !.dst_port = t.name, !.dst_device = t.name]
    ELSE o

\* self.conn(src_device="", src_port="", ..., dst_type="interface")
EmptyConn ==
    [src_device |-> "", src_port |-> "", src_type |-> "interface",
     dst_device |-> "", dst_port |-> "", dst_type |-> "interface"]

ConnInit ==
    /\ pkg = "ssot"
    /\ PLUGIN_CFG = Configured
    /\ dry_run = FALSE /\ debug = FALSE /\ delete_on_sync = TRUE
    /\ \E cs \in SeqsUpTo(ConnRecords, MaxConns), cl \in CableLists :
        /\ cs = <<>> \/ cl = <<>>
        /\ d42_records = [conns |-> cs]
        /\ db = [cable |-> cl]
    /\ run = 1
    /\ api = NoCall
    /\ d42_store = EmptyStore
    /\ nb_store = EmptyStore
    /\ diff = <<>>
    /\ saved_diff = [saved |-> FALSE, nodes |-> {}]
    /\ pc = "conn_d42"
    /\ idx = 1
    /\ objects_to_delete = [k \in DeleteListKeys[pkg] |-> <<>>]
    /\ sweep_pos = <<1, 1>>
    /\ hook_log = <<>>
    /\ sweep_log = <<>>
    /\ db_before = db
    /\ rediff = <<>>


\* load_connections, one record: the connection and its reverse are added; the first
\* ObjectAlreadyExists is caught and the loop goes on to the next record
LoadConnection ==
    /\ pc = "conn_d42" /\ idx <= Len(d42_records.conns)
    /\ LET r == d42_records.conns[idx]
           new_conn == [src_device |-> r.src_device, src_port |-> r.src_port,
                        src_type |-> "interface", dst_device |-> r.dst_device,
                        dst_port |-> r.dst_port, dst_type |-> "interface"]
           rev_conn == [src_device |-> r.dst_device, src_port |-> r.dst_port,
                        src_type |-> "interface", dst_device |-> r.src_device,
                        dst_port |-> r.src_port, dst_type |-> "interface"]
           a1 == conn_add(d42_store, new_conn, 2 * idx - 1)
       IN d42_store' = IF a1.err # None THEN Caught(a1, {"ObjectAlreadyExists"})
                       ELSE Caught(conn_add(a1, rev_conn, 2 * idx), {"ObjectAlreadyExists"})
    /\ idx' = idx + 1
    /\ UNCHANGED <<run, api, PLUGIN_CFG, pkg, dry_run, debug, delete_on_sync, d42_records, db, nb_store, diff,
                   saved_diff, pc, objects_to_delete, sweep_pos, hook_log, sweep_log,
                   db_before, rediff>>

\* load_connections returns; the Nautobot adapter starts on its cables
ConnectionsLoaded ==
    /\ pc = "conn_d42" /\ idx > Len(d42_records.conns)
    /\ pc' = "conn_nb"
    /\ idx' = 1
    /\ UNCHANGED <<run, api, PLUGIN_CFG, pkg, dry_run, debug, delete_on_sync, d42_records, db, d42_store, nb_store,
                   diff, saved_diff, objects_to_delete, sweep_pos, hook_log, sweep_log,
                   db_before, rediff>>

\* load_cables, one cable: the Connection is filled in and added, then the same object
\* is filled in from the other side and added again; add is not wrapped, so
\* ObjectAlreadyExists ends the load
LoadCable ==
    /\ pc = "conn_nb" /\ idx <= Len(db.cable)
    /\ LET c == db.cable[idx]
           o1 == add_dst_connection(c.b, add_src_connection(c.a, EmptyConn))
           s1 == conn_add(nb_store, o1, idx)
           o2 == add_dst_connection(c.a, add_src_connection(c.b, o1))
           s2 == conn_add(conn_mutate(s1, o2, idx), o2, idx)
       IN /\ nb_store' = IF s1.err # None THEN s1 ELSE s2
          /\ pc' = IF nb_store'.err # None THEN "failed" ELSE pc
    /\ idx' = idx + 1
    /\ UNCHANGED <<run, api, PLUGIN_CFG, pkg, dry_run, debug, delete_on_sync, d42_records, db, d42_store, diff,
                   saved_diff, objects_to_delete, sweep_pos, hook_log, sweep_log,
                   db_before, rediff>>

\* load_cables returns
CablesLoaded ==
    /\ pc = "conn_nb" /\ idx > Len(db.cable)
    /\ pc' = "conn_done"
    /\ UNCHANGED <<run, api, PLUGIN_CFG, pkg, dry_run, debug, delete_on_sync, d42_records, db, d42_store, nb_store,
                   diff, saved_diff, idx, objects_to_delete, sweep_pos, hook_log, sweep_log,
                   db_before, rediff>>

ConnNext ==
    \/ LoadConnection
    \/ ConnectionsLoaded
    \/ LoadCable
    \/ CablesLoaded

ConnSpec == ConnInit /\ [][ConnNext]_vars

\* C13: in each store no two entries have the same identity, and every entry is held
\* under the key that is its own identity, during the load and after it
C13_KeyIsIdentity ==
    \A st \in {d42_store, nb_store} :
        /\ \A e \in st.ents : e.key = e.id
        /\ \A e, f \in st.ents : e.id = f.id => e = f


\* C14: ObjectAlreadyExists raised by add() for a record whose identity is in the store
\* already never ends load(): no load fails with it
C14_AlreadyExistsCaught ==
    /\ d42_store.err # "ObjectAlreadyExists"
    /\ nb_store.err # "ObjectAlreadyExists"


\* C15: ObjectNotFound raised by get() for a record whose parent is not in the store
\* never ends load(): no load fails with it
C15_NotFoundCaught ==
    /\ d42_store.err # "ObjectNotFound"
    /\ nb_store.err # "ObjectNotFound"

(***************************************************************************)
(* Loading the site tree of Device42 record by record: building records    *)
(* that carry a "rooms" list, rooms and racks of buildings that may be     *)
(* missing                                                                 *)
(***************************************************************************)
MaxSiteRecs == 2

\* what a building record of the Device42 API may carry under "rooms"
RoomLists == {<<>>, << <<"r1">> >>, << <<"r1", "B1">> >>}

SiteBuildingRecs == [name : {"B1", "B2"}, address : {""}, rooms : RoomLists]

SiteRoomRecs == [name : {"r1"}, building : {"B1", "B2", ""}]

SiteRackRecs == [name : {"k1"}, building : {"B1"}, room : {"r1", ""}]

SiteInit ==
    /\ pkg \in {"ssot", "sync"}
    /\ PLUGIN_CFG = Configured
    /\ dry_run = FALSE /\ debug = FALSE /\ delete_on_sync = TRUE
    /\ \E bs \in SeqsUpTo(SiteBuildingRecs, MaxSiteRecs),
          rs \in SeqsUpTo(SiteRoomRecs, MaxSiteRecs),
          ks \in SeqsUpTo(SiteRackRecs, 1) :
        d42_records = [buildings |-> bs, rooms |-> rs, racks |-> ks]
    /\ db = [cable |-> <<>>]
    /\ run = 1
    /\ api = NoCall
    /\ d42_store = EmptyStore
    /\ nb_store = EmptyStore
    /\ diff = <<>>
    /\ saved_diff = [saved |-> FALSE, nodes |-> {}]
    /\ pc = "site_buildings"
    /\ idx = 1
    /\ objects_to_delete = [k \in DeleteListKeys[pkg] |-> <<>>]
    /\ sweep_pos = <<1, 1>>
    /\ hook_log = <<>>
    /\ sweep_log = <<>>
    /\ db_before = db
    /\ rediff = <<>>

\* the loader that runs after the one named by pc
SiteNextLoader == [site_buildings |-> "site_rooms", site_rooms |-> "site_racks",
                   site_racks |-> "site_loaded"]

SiteRecords == [site_buildings |-> d42_records.buildings, site_rooms |-> d42_records.rooms,
                site_racks |-> d42_records.racks]

\* one pass of the for loop of load_buildings, load_rooms or load_racks; an exception
\* the loader does not catch ends the load
SiteLoadRecord ==
    /\ pc \in DOMAIN SiteNextLoader /\ idx <= Len(SiteRecords[pc])
    /\ LET r == <<SiteRecords[pc][idx]>>
       IN d42_store' = CASE pc = "site_buildings" -> load_buildings(pkg, PLUGIN_CFG, d42_store, r)
                         [] pc = "site_rooms" -> load_rooms(d42_store, r)
                         [] pc = "site_racks" -> load_racks(d42_store, r)
    /\ pc' = IF d42_store'.err # None THEN "failed" ELSE pc
    /\ idx' = idx + 1
    /\ UNCHANGED <<run, api, PLUGIN_CFG, pkg, dry_run, debug, delete_on_sync, d42_records, db, nb_store, diff,
                   saved_diff, objects_to_delete, sweep_pos, hook_log, sweep_log,
                   db_before, rediff>>

\* the loader returns and load() calls the next one
SiteLoaderReturns ==
    /\ pc \in DOMAIN SiteNextLoader /\ idx > Len(SiteRecords[pc])
    /\ pc' = SiteNextLoader[pc]
    /\ idx' = 1
    /\ UNCHANGED <<run, api, PLUGIN_CFG, pkg, dry_run, debug, delete_on_sync, d42_records, db, d42_store, nb_store,
                   diff, saved_diff, objects_to_delete, sweep_pos, hook_log, sweep_log,
                   db_before, rediff>>

SiteNext == SiteLoadRecord \/ SiteLoaderReturns

SiteSpec == SiteInit /\ [][SiteNext]_vars

\* C16: at the end of load every child identifier listed on an entity names an entity
\* of the declared child type that is present in the same store
C16_ChildrenPresent ==
    pc = "site_loaded" =>
        \A k \in d42_store.kids : Has(d42_store, k[1], k[2]) /\ Has(d42_store, k[3], k[4])

\* the entity types a load attaches to a parent, with the parent's type
ParentType == [room |-> "building", rack |-> "room", port |-> "device"]

\* C17: at the end of load every room, rack and port of a store is listed in the child
\* collection of a parent entity of that same store
C17_NoOrphan ==
    pc = "nb_loaded" =>
        \A st \in {d42_store, nb_store} : \A e \in st.ents :
            e.type \in DOMAIN ParentType =>
                \E k \in st.kids : /\ k[1] = ParentType[e.type] /\ Has(st, k[1], k[2])
                                   /\ k[3] = e.type /\ k[4] = e.id

\* C18: after a sync that changed only serial_no of a device, the device's row carries
\* the serial of Device42 and every other column of the row is as it was before
C18_OnlySerialWritten ==
    (pkg = "ssot" /\ ~dry_run /\ pc = "done") =>
        \A k \in 1..Len(diff) :
            (diff[k].type = "device" /\ diff[k].action = "update"
                /\ diff[k].changed = {"serial_no"}) =>
                \E old \in RowsByKey(db_before, "device", diff[k].id) :
                    [old EXCEPT !.serial = diff[k].attrs.serial_no] \in db.device

\* the update hook called a second time with the same attrs, on what the first call left
UpdateTwice(c, n) ==
    LET r1 == Hook(c, n) IN Hook([c EXCEPT !.db = r1.db, !.otd = r1.otd], n)

C20_DeleteRemovesOrDefers ==
    (pc = "walk" /\ idx <= Len(diff) /\ diff[idx].action = "delete") =>
        /\ Hook(Ctx, diff[idx]).kind = "ok"
        /\ \/ Hook(Ctx, diff[idx]).otd # objects_to_delete
           \/ Hook(Ctx, diff[idx]).db # db

(***************************************************************************)
(* Tag lists: one building of Device42 and the site of Nautobot it matches, *)
(* each with the tags its system returns, in the order it returns them      *)
(***************************************************************************)
MaxTags == 2

TagNames == {"ta", "tb", "tc"}

\* the orders in which a system may return up to MaxTags different tags
TagLists == {s \in SeqsUpTo(TagNames, MaxTags) : \A k, l \in 1..Len(s) : k # l => s[k] # s[l]}

TagInit ==
    /\ pkg \in {"ssot", "sync"}
    /\ PLUGIN_CFG = Configured
    /\ dry_run = FALSE /\ debug = FALSE /\ delete_on_sync = TRUE
    /\ \E dt \in TagLists, nt \in TagLists :
        /\ d42_records = [tags |-> dt]
        /\ db = [tags |-> nt]
    /\ run = 1
    /\ api = NoCall
    /\ d42_store = EmptyStore
    /\ nb_store = EmptyStore
    /\ diff = <<>>
    /\ saved_diff = [saved |-> FALSE, nodes |-> {}]
    /\ pc = "tag_d42"
    /\ idx = 1
    /\ objects_to_delete = [k \in DeleteListKeys[pkg] |-> <<>>]
    /\ sweep_pos = <<1, 1>>
    /\ hook_log = <<>>
    /\ sweep_log = <<>>
    /\ db_before = db
    /\ rediff = <<>>

\* load_buildings on the record of B1
LoadD42Tags ==
    /\ pc = "tag_d42"
    /\ d42_store' = add(d42_store, Entity("building", <<"B1">>,
                                          [tags |-> d42_tags(pkg, d42_records.tags)]))
    /\ pc' = "tag_nb"
    /\ UNCHANGED <<run, api, PLUGIN_CFG, pkg, dry_run, debug, delete_on_sync, d42_records, db, nb_store, diff,
                   saved_diff, idx, objects_to_delete, sweep_pos, hook_log, sweep_log,
                   db_before, rediff>>

\* load_sites on the site B1
LoadNbTags ==
    /\ pc = "tag_nb"
    /\ nb_store' = add(nb_store, Entity("building", <<"B1">>,
                                        [tags |-> get_tag_strings(pkg, db.tags)]))
    /\ pc' = "tag_loaded"
    /\ UNCHANGED <<run, api, PLUGIN_CFG, pkg, dry_run, debug, delete_on_sync, d42_records, db, d42_store, diff,
                   saved_diff, idx, objects_to_delete, sweep_pos, hook_log, sweep_log,
                   db_before, rediff>>

\* the diff of the two buildings
DiffTags ==
    /\ pc = "tag_loaded"
    /\ diff' = <<DiffNode(d42_store, nb_store, "building", <<"B1">>, <<>>)>>
    /\ pc' = "tag_diffed"
    /\ UNCHANGED <<run, api, PLUGIN_CFG, pkg, dry_run, debug, delete_on_sync, d42_records, db, d42_store, nb_store,
                   saved_diff, idx, objects_to_delete, sweep_pos, hook_log, sweep_log,
                   db_before, rediff>>

TagNext == LoadD42Tags \/ LoadNbTags \/ DiffTags

TagSpec == TagInit /\ [][TagNext]_vars

\* C21: tag lists with the same members diff to skip whatever their order, tag lists
\* with different members diff to update with tags as the only changed attribute
C21_TagsOrderFree ==
    pc = "tag_diffed" =>
        IF Range(d42_records.tags) = Range(db.tags)
        THEN diff[1].action = "skip"
        ELSE diff[1].action = "update" /\ diff[1].changed = {"tags"}

\* a tag list of the records calls for a setting that is absent
SettingMissing ==
    \/ /\ Falsy(PLUGIN_CFG.facility_prepend)
       /\ \E k \in 1..Len(d42_records.buildings) : Len(RecordTags(d42_records.buildings[k])) > 0
    \/ /\ Falsy(PLUGIN_CFG.role_prepend)
       /\ \E k \in 1..Len(d42_records.devices) : Len(RecordTags(d42_records.devices[k])) > 0

\* C22: when a tag-prefix setting that is needed is absent, the run ends in the load
\* phase: no diff is computed and the backing store is not written
C22_MissingSettingEndsLoad ==
    SettingMissing => (pc \in {"start", "failed"} /\ diff = <<>> /\ db = db_before)

(***************************************************************************)
(* Device42API.api_call against a server that answers each request with an *)
(* HTTP error or with a page: offset, limit and total_count as it reports   *)
(* them                                                                    *)
(***************************************************************************)
MaxTotal == 3

\* if counter > 10000
PaginationCap == 10000

\* what the server may answer to one request
Responses ==
    [status : {"ok", "error"}, offset : 0..MaxTotal, limit : {1}, total_count : 0..MaxTotal]

ApiInit ==
    /\ pkg = "sync"
    /\ PLUGIN_CFG = Configured
    /\ dry_run = FALSE /\ debug = FALSE /\ delete_on_sync = TRUE
    /\ d42_records = <<>>
    /\ db = [cable |-> <<>>]
    /\ run = 1
    /\ api = NoCall
    /\ d42_store = EmptyStore
    /\ nb_store = EmptyStore
    /\ diff = <<>>
    /\ saved_diff = [saved |-> FALSE, nodes |-> {}]
    /\ pc = "api_start"
    /\ idx = 1
    /\ objects_to_delete = [k \in DeleteListKeys[pkg] |-> <<>>]
    /\ sweep_pos = <<1, 1>>
    /\ hook_log = <<>>
    /\ sweep_log = <<>>
    /\ db_before = db
    /\ rediff = <<>>

\* merge_offset_dicts on the paging keys: the values of the later page
merge_offset_dicts(orig, resp) ==
    [offset |-> resp.offset, limit |-> resp.limit, total_count |-> resp.total_count]

\* (return_data.get("offset") + return_data.get("limit")) < return_data.get("total_count")
MorePages(rd) == rd.offset + rd.limit < rd.total_count

\* a mutation of ApiFirstRequest: an HTTP error on the first page returns return_data
ApiFirstRequestSilent ==
    /\ pc = "api_start"
    /\ \E resp \in Responses :
        /\ d42_records' = Append(d42_records, resp.status)
        /\ IF resp.status = "error"
           THEN /\ api' = [api EXCEPT !.result = "data", !.printed = @ \cup {"error"}]
                /\ pc' = "api_returned"
           ELSE /\ api' = [api EXCEPT !.return_data = merge_offset_dicts(<<>>, resp),
                                      !.result = IF resp.total_count # 0 THEN None ELSE "data"]
                /\ pc' = IF resp.total_count # 0 THEN "api_loop" ELSE "api_returned"
    /\ UNCHANGED <<run, PLUGIN_CFG, pkg, dry_run, debug, delete_on_sync, db, d42_store, nb_store,
                   diff, saved_diff, idx, objects_to_delete, sweep_pos, hook_log, sweep_log,
                   db_before, rediff>>

\* the first request: an HTTP error is printed and False is returned; a page without
\* total_count is returned as it is
ApiFirstRequest ==
    /\ pc = "api_start"
    /\ \E resp \in Responses :
        /\ d42_records' = Append(d42_records, resp.status)
        /\ IF resp.status = "error"
           THEN /\ api' = [api EXCEPT !.result = "False", !.printed = @ \cup {"error"}]
                /\ pc' = "api_returned"
           ELSE /\ api' = [api EXCEPT !.return_data = merge_offset_dicts(<<>>, resp),
                                      !.result = IF resp.total_count # 0 THEN None ELSE "data"]
                /\ pc' = IF resp.total_count # 0 THEN "api_loop" ELSE "api_returned"
    /\ UNCHANGED <<run, PLUGIN_CFG, pkg, dry_run, debug, delete_on_sync, db, d42_store, nb_store,
                   diff, saved_diff, idx, objects_to_delete, sweep_pos, hook_log, sweep_log,
                   db_before, rediff>>

\* one pass of the while loop: the next page is requested, raise_for_status is not
\* wrapped, the page is merged; past the cap a message is printed and the loop is left
ApiNextPage ==
    /\ pc = "api_loop" /\ MorePages(api.return_data)
    /\ \E resp \in Responses :
        /\ d42_records' = <<d42_records[1], resp.status>>
        /\ IF resp.status = "error"
           THEN /\ api' = [api EXCEPT !.pagination = TRUE, !.counter = @ + 1,
                                      !.result = "HTTPError"]
                /\ pc' = "api_raised"
           ELSE IF api.counter + 1 > PaginationCap
           THEN /\ api' = [api EXCEPT !.pagination = TRUE, !.counter = @ + 1,
                                      !.return_data = merge_offset_dicts(@, resp),
                                      !.printed = @ \cup {"too_many"}, !.result = "data"]
                /\ pc' = "api_returned"
           ELSE /\ api' = [api EXCEPT !.pagination = TRUE, !.counter = @ + 1,
                                      !.return_data = merge_offset_dicts(@, resp)]
                /\ pc' = "api_loop"
    /\ UNCHANGED <<run, PLUGIN_CFG, pkg, dry_run, debug, delete_on_sync, db, d42_store, nb_store,
                   diff, saved_diff, idx, objects_to_delete, sweep_pos, hook_log, sweep_log,
                   db_before, rediff>>

\* the loop condition is false: return return_data
ApiReturn ==
    /\ pc = "api_loop" /\ ~MorePages(api.return_data)
    /\ api' = [api EXCEPT !.result = "data"]
    /\ pc' = "api_returned"
    /\ UNCHANGED <<run, PLUGIN_CFG, pkg, dry_run, debug, delete_on_sync, d42_records, db, d42_store,
                   nb_store, diff, saved_diff, idx, objects_to_delete, sweep_pos, hook_log,
                   sweep_log, db_before, rediff>>

ApiNext == ApiFirstRequest \/ ApiNextPage \/ ApiReturn

ApiSpec == ApiInit /\ [][ApiNext]_vars

\* C23: the loop makes at most PaginationCap + 1 further requests, and a call that
\* reached the cap does not return its record set as an ordinary value
C23_CapIsFatal ==
    /\ api.counter <= PaginationCap + 1
    /\ (pc = "api_returned" /\ api.counter > PaginationCap) => api.result # "data"


C25_StoreEqualsSource ==
    /\ pc \in {"site_rooms", "site_racks", "site_loaded"} =>
        IdsOf(d42_store, "building") = {<<r.name>> : r \in Range(d42_records.buildings)}
    /\ pc \in {"site_racks", "site_loaded"} =>
        IdsOf(d42_store, "room") = {<<r.name, r.building>> : r \in Range(d42_records.rooms)}
    /\ pc = "site_loaded" =>
        IdsOf(d42_store, "rack") =
            {<<r.name, r.building, r.room>> : r \in Range(d42_records.racks)}


(***************************************************************************)
(* Several runs of the job in one worker process.  _objects_to_delete is   *)
(* an attribute of the class NautobotAdapter: every instance of a process  *)
(* reads and appends to the same dict, and __init__ does not reset it      *)
(***************************************************************************)
MaxRuns == 2

\* the run ends during the walk on an exception raised outside the hooks (the worker's
\* soft time limit, say): sync_complete is not called and the process lives on
AbortRun ==
    /\ pc = "walk"
    /\ pc' = "failed"
    /\ UNCHANGED <<run, api, PLUGIN_CFG, pkg, dry_run, debug, delete_on_sync, d42_records, db,
                   d42_store, nb_store, diff, saved_diff, idx, objects_to_delete, sweep_pos,
                   hook_log, sweep_log, db_before, rediff>>

\* the job is run again in the same process: new adapters and a new diff; the class
\* attribute _objects_to_delete is what the earlier run left
NextRun ==
    /\ pc \in {"failed", "done", "rechecked"} /\ run < MaxRuns
    /\ run' = run + 1
    /\ d42_store' = EmptyStore /\ nb_store' = EmptyStore
    /\ diff' = <<>> /\ rediff' = <<>>
    /\ saved_diff' = [saved |-> FALSE, nodes |-> {}]
    /\ pc' = "start" /\ idx' = 1 /\ sweep_pos' = <<1, 1>>
    /\ hook_log' = <<>> /\ sweep_log' = <<>>
    /\ db_before' = db
    /\ UNCHANGED <<api, PLUGIN_CFG, pkg, dry_run, debug, delete_on_sync, d42_records, db,
                   objects_to_delete>>

RerunNext == Next \/ AbortRun \/ NextRun

RerunSpec == Init /\ [][RerunNext]_vars

\* the hooks of the current run that appended to a deferred-deletion list
QueuedInRun == {k \in 1..Len(hook_log) : hook_log[k].queued}

\* C26: every run starts with empty deferred-deletion lists and leaves them empty
\* after sync_complete, and its sweep handles no object that its own hooks did not append
C26_ListsBelongToRun ==
    /\ pc \in {"start", "done"} =>
        \A k \in DOMAIN objects_to_delete : objects_to_delete[k] = <<>>
    /\ Len(sweep_log) <= Cardinality(QueuedInRun)


\* the key under which the delete hook of a type appends: self.diffsync.<attr>["key"]
HookListKey ==
    [ssot |-> [building |-> "site", rack |-> "rack", vendor |-> "manufacturer",
               hardware |-> "device_type", cluster |-> "cluster", device |-> "device",
               port |-> "port", vrf |-> "vrf", subnet |-> "subnet", ipaddr |-> "ipaddr",
               vlan |-> "vlan", provider |-> "provider", circuit |-> "circuit"],
     sync |-> [building |-> "site", room |-> "rackgroup", rack |-> "rack",
               vendor |-> "manufacturer", hardware |-> "device_type", cluster |-> "cluster",
               device |-> "device", port |-> "port", vrf |-> "vrf", subnet |-> "subnet",
               vlan |-> "vlan"]]

\* C27: the list a delete hook appends to is on the adapter under the name and key the
\* hook uses and is a grouping sync_complete drains; the sweep of the run deletes or
\* reports as protected every object the hooks of the run appended
C27_AppendedIsSwept ==
    /\ (pc = "walk" /\ idx <= Len(diff) /\ diff[idx].action = "delete"
            /\ diff[idx].type \in DOMAIN HookListKey[pkg]) =>
        /\ HookListAttr(pkg) = AdapterListAttr
        /\ HookListKey[pkg][diff[idx].type] \in DeleteListKeys[pkg]
        /\ HookListKey[pkg][diff[idx].type] \in Range(SweepOrder[pkg])
    /\ \A g \in DOMAIN objects_to_delete :
        objects_to_delete[g] # <<>> => g \in Range(SweepOrder[pkg])
    /\ pc = "done" => Len(sweep_log) = Cardinality(QueuedInRun)


\* the keys of the rows of a table
KeysOf(D, tbl) == {RowKey(tbl, r) : r \in D[tbl]}

Occupants(D, n) ==
    {o \in D.device : /\ o.rack = n.attrs.rack /\ o.group = n.attrs.room
                      /\ o.position = n.attrs.rack_position
                      /\ o.face = n.attrs.rack_orientation}

\* C30: a device created for a rack unit and face that exactly one other device holds
\* is in the requested rack at that position and face after the create, and the previous
\* occupant no longer holds the position
C30_CreatedDeviceTakesUnit ==
    (pkg = "ssot" /\ pc = "walk" /\ idx <= Len(diff) /\ diff[idx].type = "device"
        /\ diff[idx].action = "create" /\ ~Falsy(diff[idx].attrs.rack)
        /\ Cardinality(Occupants(db, diff[idx])) = 1
        /\ Hook(Ctx, diff[idx]).kind = "ok") =>
        LET after == Hook(Ctx, diff[idx]).db
            n == diff[idx]
        IN /\ \E d \in after.device :
                /\ d.name = n.id[1] /\ d.rack = n.attrs.rack /\ d.group = n.attrs.room
                /\ d.position = n.attrs.rack_position /\ d.face = n.attrs.rack_orientation
           /\ \A o \in Occupants(db, n) : o.name # n.id[1] => o \notin after.device


\* C29: once an update hook has returned, the row it stands for carries, for every
\* attribute the diff handed over, the value handed over, an empty one included
C29_UpdateWritesGivenValues ==
    (pkg = "ssot" /\ pc = "walk" /\ idx <= Len(diff) /\ diff[idx].action = "update"
        /\ Hook(Ctx, diff[idx]).kind = "ok") =>
        LET after == Hook(Ctx, diff[idx]).db
            n == diff[idx]
        IN /\ (n.type = "vrf" /\ "description" \in n.changed) =>
                \A r \in RowsByKey(after, "vrf", n.id) : r.description = n.attrs.description
           /\ (n.type = "building" /\ "address" \in n.changed) =>
                \A r \in RowsByKey(after, "site", n.id) : r.physical_address = n.attrs.address

====
